---- MODULE Spec2Model ----
(***************************************************************************)
(* Model of the code indexing and hybrid retrieval pipeline of code-RAG:   *)
(* the incremental ingest controller (ingest.py), the reference graph      *)
(* builder (src/graph_builder.py), the store adapters (src/database.py,    *)
(* src/graph_store.py) and the hybrid search engine (src/search_engine.py).*)
(*                                                                         *)
(* Strings that the code splits or joins on "/" or "." are modelled as     *)
(* sequences of their components: a path "data/a.py" is <<"data","a.py">>, *)
(* a qualified name "data.a.foo" is <<"data","a","foo">>, so that          *)
(* f"{prefix}.{name}" is sequence concatenation.                           *)
(***************************************************************************)
EXTENDS Integers, Sequences, FiniteSets, TLC

(* ------------------------------ bounds -------------------------------- *)
\* number of distinct contents a source file can take (0 is "not on disk")
MaxVer == 2
\* upper bound on the surrogate point ids handed out by upsert_chunks
MaxId == 12
\* how often the graph builder of SpecGraph is built
MaxBuilds == 2
\* how many add_chunk calls SpecGraph makes on one builder
MaxAdds == 3

(* ------------------------- generic helpers ---------------------------- *)
Range(s) == {s[i] : i \in DOMAIN s}

RECURSIVE SetToSeq(_)
\* some enumeration of a finite set (a Python set or dict is iterated in an
\* order the program does not control)
SetToSeq(S) ==
  IF S = {} THEN <<>>
  ELSE LET x == CHOOSE y \in S : TRUE IN <<x>> \o SetToSeq(S \ {x})

RECURSIVE Flatten(_)
\* concatenation of a sequence of sequences
Flatten(ss) == IF ss = <<>> THEN <<>> ELSE Head(ss) \o Flatten(Tail(ss))

\* text is a contiguous part of field
IsSubSeq(text, field) ==
  \E i \in 0..(Len(field) - Len(text)) :
     \A j \in 1..Len(text) : field[i + j] = text[j]

(* ------------------------- reference graph builder -------------------- *)
\* the absent qualified name (Python None)
QnNone == <<>>

\* GraphBuilder.__init__
NewBuilder ==
  [chunks |-> <<>>, ui_chunks |-> {}, file_ui_vars |-> {},
   class_to_ui_map |-> {}, call_graph |-> <<>>, reverse_call_graph |-> <<>>]

\* the keys of self.chunks
NodeSet(b) == {b.chunks[i].qualified_name : i \in DOMAIN b.chunks}

\* self.chunks[chunk.qualified_name] = chunk : a dict keeps the position of a
\* key that is already present and replaces its value
PutChunk(chs, c) ==
  IF \E i \in DOMAIN chs : chs[i].qualified_name = c.qualified_name
  THEN [i \in DOMAIN chs |->
          IF chs[i].qualified_name = c.qualified_name THEN c ELSE chs[i]]
  ELSE Append(chs, c)

\* _detect_ui_variable: the file of the chunk is read from disk and searched
\* for  var = uic.loadUiType("x.ui") ; c.ui_file is what the search finds in
\* the chunk's file (QnNone: no match, or the file cannot be read)
detect_ui_variable(b, c) ==
  IF \E e \in b.file_ui_vars : e[1] = c.filepath THEN b.file_ui_vars
  ELSE IF c.ui_file = QnNone THEN b.file_ui_vars
  ELSE b.file_ui_vars \cup {<<c.filepath, c.ui_file>>}

\* _detect_ui_inheritance: c.inherits_ui is the outcome of the regex search
\* of the class header for the file's ui variable
detect_ui_inheritance(b, fuv, c) ==
  IF ~(\E e \in fuv : e[1] = c.filepath) THEN b.class_to_ui_map
  ELSE LET ui == (CHOOSE e \in fuv : e[1] = c.filepath)[2] IN
       IF c.inherits_ui
       THEN {e \in b.class_to_ui_map : e[1] # c.qualified_name}
              \cup {<<c.qualified_name, ui>>}
       ELSE b.class_to_ui_map

\* GraphBuilder.add_chunk
add_chunk(b, c) ==
  IF c.type = "ui_widget"
  THEN [b EXCEPT !.ui_chunks = @ \cup {c.qualified_name},
                 !.chunks = PutChunk(@, c)]
  ELSE LET fuv == detect_ui_variable(b, c) IN
       [b EXCEPT !.chunks = PutChunk(@, c),
                 !.file_ui_vars = fuv,
                 !.class_to_ui_map =
                    IF c.type = "class" THEN detect_ui_inheritance(b, fuv, c)
                    ELSE @]

\* module_path.replace("/", ".").replace("\\", ".").replace(".py", "") as the
\* components between the dots: the empty string gives one empty component
ModulePrefix(module_path) ==
  IF module_path = <<>> THEN <<"">> ELSE module_path

\* the import target of alias n in a chunk's imports (QnNone if none)
ImportTarget(c, n) ==
  IF \E e \in c.imports : e[1] = n
  THEN (CHOOSE e \in c.imports : e[1] = n)[2]
  ELSE QnNone

\* GraphBuilder._resolve_function_name
resolve_function_name(b, func_name, context_chunk) ==
  LET candidate == ModulePrefix(context_chunk.module_path) \o func_name
      full_path == ImportTarget(context_chunk, func_name)
  IN IF candidate \in NodeSet(b) THEN candidate
     ELSE IF full_path # QnNone /\ full_path \in NodeSet(b) THEN full_path
     ELSE QnNone

\* the qualified-name prefixes parts[:i], i = len-1 .. 1, that are UI classes
UiPrefixes(b, qn) ==
  {i \in 1..(Len(qn) - 1) :
     \E e \in b.class_to_ui_map : e[1] = SubSeq(qn, 1, i)}

\* GraphBuilder._get_ui_file_for_chunk
get_ui_file_for_chunk(b, c) ==
  LET qn == c.qualified_name
      ps == UiPrefixes(b, qn)
  IN IF Len(qn) >= 3 /\ ps # {}
     THEN LET i == CHOOSE k \in ps : \A m \in ps : m <= k IN
          (CHOOSE e \in b.class_to_ui_map : e[1] = SubSeq(qn, 1, i))[2]
     ELSE IF \E e \in b.class_to_ui_map : e[1] = qn
     THEN (CHOOSE e \in b.class_to_ui_map : e[1] = qn)[2]
     ELSE QnNone

\* the edges one call name of one chunk appends to self.call_graph[qn]
EdgesOfCall(b, c, called_func) ==
  LET callee_qn == resolve_function_name(b, called_func, c)
      linked_ui_file == get_ui_file_for_chunk(b, c)
      ui_widget_qn == linked_ui_file \o called_func
  IN (IF callee_qn # QnNone THEN << <<c.qualified_name, callee_qn>> >> ELSE <<>>)
     \o (IF linked_ui_file # QnNone /\ ui_widget_qn \in b.ui_chunks
         THEN << <<c.qualified_name, ui_widget_qn>> >> ELSE <<>>)

\* the body of the loop over self.chunks.items() for one chunk
EdgesOfChunk(b, c) ==
  IF c.type = "ui_widget" THEN <<>>
  ELSE LET cs == SetToSeq(c.calls) IN
       Flatten([i \in DOMAIN cs |-> EdgesOfCall(b, c, cs[i])])

\* self.call_graph after the resolution loop: edges are appended, never reset
ForwardEdges(b) ==
  b.call_graph \o Flatten([i \in DOMAIN b.chunks |-> EdgesOfChunk(b, b.chunks[i])])

\* the inversion loop appending the edges without turning them round
ReverseEdges_forward(b, cg) == b.reverse_call_graph \o cg

\* self.reverse_call_graph after the inversion loop: every forward edge now in
\* the map (also those of an earlier build) is appended once more
ReverseEdges(b, cg) ==
  b.reverse_call_graph \o [i \in DOMAIN cg |-> <<cg[i][2], cg[i][1]>>]

\* self.reverse_call_graph.get(qn, [])
CallersList(rcg, qn) ==
  LET hits == SelectSeq(rcg, LAMBDA e : e[1] = qn) IN
  [i \in DOMAIN hits |-> hits[i][2]]

\* GraphBuilder.build_call_graph
build_call_graph(b) ==
  LET cg == ForwardEdges(b)
      rcg == ReverseEdges(b, cg)
  IN [b EXCEPT !.call_graph = cg,
               !.reverse_call_graph = rcg,
               !.chunks = [i \in DOMAIN b.chunks |->
                  [b.chunks[i] EXCEPT
                     !.called_by = CallersList(rcg, b.chunks[i].qualified_name)]]]

\* CallGraph.edges as the set of (caller, callee) pairs
EdgeSet(b) == Range(b.call_graph)

(* ------------------------------ source files -------------------------- *)
\* the eligible .py files under TARGET_DIR ("data"), as str(file_path)
PathA == <<"data", "a.py">>
PathB == <<"data", "data", "b.py">>
Paths == {PathA, PathB}
\* the order in which os.walk lists them
PathOrder == <<PathA, PathB>>

\* content versions of a file; 0 stands for a file that is not on disk
Versions == 1..MaxVer

\* Path.stem of a file name
Stem(file) == CASE file = "a.py" -> "a" [] file = "b.py" -> "b" [] OTHER -> file

\* ASTParser._normalize_filepath: a component equal to the one before it is
\* dropped
RECURSIVE normalize_filepath(_)
normalize_filepath(p) ==
  IF Len(p) <= 1 THEN p
  ELSE LET init == normalize_filepath(SubSeq(p, 1, Len(p) - 1)) IN
       IF p[Len(p)] = p[Len(p) - 1] THEN init ELSE Append(init, p[Len(p)])

\* resolve_fqn_from_ast: the path relative to the repository root without its
\* suffix, then the enclosing definitions outermost first, then the name; a
\* path that leaves the root ("..") is not relative to it and only its stem
\* is used
resolve_fqn_from_ast(p, scope, name) ==
  LET module_parts == IF p[1] = ".."
                      THEN <<Stem(p[Len(p)])>>
                      ELSE SubSeq(p, 1, Len(p) - 1) \o <<Stem(p[Len(p)])>>
  IN module_parts \o scope \o <<name>>

\* the definitions the structure query captures in version v of file p, in
\* source order: name, enclosing scope and the call names extract_calls finds
DefsOf(p, v) ==
  IF p = PathA
  THEN IF v = 1
       THEN << [name |-> "foo", scope |-> <<>>, calls |-> {<<"data", "b", "bar">>}] >>
       ELSE << [name |-> "foo", scope |-> <<>>, calls |-> {<<"data", "b", "bar">>}],
               [name |-> "baz", scope |-> <<>>, calls |-> {<<"foo">>}] >>
  ELSE IF v = 1
       THEN << [name |-> "bar", scope |-> <<>>, calls |-> {}] >>
       ELSE << [name |-> "bar", scope |-> <<>>, calls |-> {}],
               [name |-> "qux", scope |-> <<>>, calls |-> {<<"bar">>}] >>

\* the CodeChunk that _parse_code builds for one captured definition
ChunkOf(p, v, d) ==
  [name |-> d.name, type |-> "function", content |-> v,
   filepath |-> normalize_filepath(p),
   qualified_name |-> resolve_fqn_from_ast(p, d.scope, d.name),
   module_path |-> SubSeq(p, 1, Len(p) - 1),
   imports |-> {}, calls |-> d.calls, called_by |-> <<>>,
   ui_file |-> QnNone, inherits_ui |-> FALSE]

\* ASTParser.parse for a .py file holding version v (no bytes: no chunks)
parse(p, v) ==
  IF v = 0 THEN <<>>
  ELSE [i \in DOMAIN DefsOf(p, v) |-> ChunkOf(p, v, DefsOf(p, v)[i])]

\* parser.parse_file(str(file_path)): ASTParser defines parse, not parse_file,
\* so the attribute lookup raises AttributeError
parse_file(p, v) == [raised |-> TRUE, chunks |-> <<>>]

(* ------------------------------ ingest state -------------------------- *)
\* dict.get of a missing key
None == 0

\* hashlib.md5 of the content: distinct contents of the bounded domain have
\* distinct digests
md5(v) == 1000 + v

\* a path -> hash dict, as a total map with None for the missing keys
EmptyState == [p \in Paths |-> None]

\* the state file: absent, a complete JSON object, or a truncated one
AbsentFile == [kind |-> "absent", map |-> EmptyState]
ValidFile(m) == [kind |-> "valid", map |-> m]
PartialFile == [kind |-> "partial", map |-> EmptyState]

\* load_state
load_state(f) == IF f.kind = "valid" THEN f.map ELSE EmptyState

\* save_state writing to a temporary file first: the state file is untouched
\* until the dump is complete
save_state_open_keep(f) == f

\* open(STATE_FILE, "w"): the file is truncated before anything is written
save_state_open(f) == PartialFile

\* a dump that writes an empty map
save_state_dump_empty(state) == ValidFile(EmptyState)

\* json.dump(state, f) and the close of the file
save_state_dump(state) == ValidFile(state)

(* ------------------------------ vector store -------------------------- *)
\* batch_size of upsert_chunks
BatchSize == 5

\* the PointStruct upsert_chunks builds for a chunk
PointOf(c, id) ==
  [id |-> id, name |-> c.name, type |-> c.type, content |-> c.content,
   filepath |-> c.filepath, qualified_name |-> c.qualified_name,
   calls |-> c.calls, called_by |-> c.called_by]

\* the 0-based batch a chunk position falls into
BatchOf(i) == (i - 1) \div BatchSize

\* VectorStore.upsert_chunks: every batch is embedded and upserted on its own;
\* a batch in failed raises, which is caught and logged
upsert_chunks(vs, chunks, firstId, failed) ==
  vs \cup {PointOf(chunks[i], firstId + i - 1) :
             i \in {k \in DOMAIN chunks : BatchOf(k) \notin failed}}

\* VectorStore.recreate_collection
recreate_collection(vs) == {}

\* FieldCondition(key="filepath", match=MatchText(text)) on a field without a
\* full-text index: the text is a substring of the field
MatchText(text, field) == IsSubSeq(text, field)

\* a delete loop that ends at the first delete that raises
delete_by_filepath_abort(vs, paths, failed) ==
  {pt \in vs : ~(\E i \in DOMAIN paths :
                    /\ \A j \in 1..i : j \notin failed
                    /\ MatchText(paths[i], pt.filepath))}

\* db.client.delete(points_selector=Filter(must=[filepath MatchText path]))
\* for every path of the list whose delete does not raise
delete_by_filepath(vs, paths, failed) ==
  {pt \in vs : ~(\E i \in DOMAIN paths :
                    i \notin failed /\ MatchText(paths[i], pt.filepath))}

(* ------------------------------ graph store --------------------------- *)
EmptyGraph == [nodes |-> {}, edges |-> {}]

\* clear_all_data that deletes nothing
clear_all_data_noop(g, drv) == g

\* GraphStore.clear_all_data: MATCH (n) DETACH DELETE n
clear_all_data(g, drv) == IF drv THEN EmptyGraph ELSE g

\* the node one MERGE ... SET statement writes
NodeOf(c) ==
  [label |-> IF c.type = "ui_widget" THEN "Widget" ELSE "Function",
   qualified_name |-> c.qualified_name, filepath |-> c.filepath,
   name |-> c.name, type |-> c.type]

RECURSIVE MergeNodes(_, _)
\* the node loop of save_graph_data: MERGE on label and qualified_name, then
\* SET overwrites the properties
MergeNodes(nodes, chunks) ==
  IF chunks = <<>> THEN nodes
  ELSE LET n == NodeOf(Head(chunks)) IN
       MergeNodes({m \in nodes : ~(m.label = n.label
                                    /\ m.qualified_name = n.qualified_name)}
                    \cup {n},
                  Tail(chunks))

\* GraphStore.save_graph_data: an edge is merged only where both MATCHes find
\* a node
save_graph_data(g, drv, chunks, edges) ==
  IF ~drv THEN g
  ELSE LET ns == MergeNodes(g.nodes, chunks)
           qns == {n.qualified_name : n \in ns}
       IN [nodes |-> ns,
           edges |-> g.edges \cup {e \in edges : e[1] \in qns /\ e[2] \in qns}]

\* the qualified names of the callers / the callees of qn in the store
CallersOf(g, qn) == {e[1] : e \in {x \in g.edges : x[2] = qn}}
CalleesOf(g, qn) == {e[2] : e \in {x \in g.edges : x[1] = qn}}

\* get_callers without the test of the driver
get_callers_unguarded(g, drv, qn) == SetToSeq(CallersOf(g, qn))

\* GraphStore.get_callers
get_callers(g, drv, qn) == IF ~drv THEN <<>> ELSE SetToSeq(CallersOf(g, qn))

\* GraphStore.get_callees
get_callees(g, drv, qn) == IF ~drv THEN <<>> ELSE SetToSeq(CalleesOf(g, qn))

\* GraphStore.get_execution_flow: "[Caller] called by x" for every caller,
\* then "[Callee] calls y" for every callee
get_execution_flow(g, drv, qn) ==
  IF ~drv THEN <<>>
  ELSE LET callers == SetToSeq(CallersOf(g, qn))
           callees == SetToSeq(CalleesOf(g, qn))
       IN [i \in DOMAIN callers |-> <<"Caller", callers[i]>>]
          \o [i \in DOMAIN callees |-> <<"Callee", callees[i]>>]

RECURSIVE AddAll(_, _)
\* graph_builder.add_chunk(chunk) for every chunk of a list
AddAll(b, chunks) ==
  IF chunks = <<>> THEN b ELSE AddAll(add_chunk(b, Head(chunks)), Tail(chunks))

(* ------------------------------ ingest run ---------------------------- *)
VARIABLES
  disk,                 \* [Paths -> 0..MaxVer]: the content of every file
  stateFile,            \* .ingest_state.json
  vstore,               \* the points of the Qdrant collection
  gstore,               \* the nodes and CALLS edges of Memgraph
  nextId,               \* the next surrogate id uuid4 hands out
  faults,               \* whether the backends may fail in this behaviour
  pc,                   \* position of main(): idle, detect, ... , done
  FULL_RESET, driver, previous_state, current_state, all_files,
  files_to_embed, files_to_delete, unchanged_files,
  chunks_to_upsert, all_chunks_for_graph,
  graph_builder,        \* the GraphBuilder of the run
  runStartFile,         \* the state file as the run found it
  crashed_in,           \* the position at which the last run was killed
  gphase, builds, adds, \* the phase of the builder, its builds and add_chunks
  all_chunks,           \* SmartSearchEngine: the corpus snapshot of __init__
  bm25,                 \* whether the BM25 index was built
  spc,                  \* position of search(): new, ready, exact, fused, ranked
  query, top_k, exact_function_chunks, vector_candidates, bm25_candidates,
  candidates_before_rerank, final_results,
  console,              \* the failures main() and upsert_chunks have printed
  call_text,            \* extract_calls: the text of the capture at hand
  extracted,            \* extract_calls: the names added to calls so far
  ncaptures,            \* extract_calls: how many captures were examined
  parsed_defs,          \* the path and the definitions of a file parsed twice
  first_parse,          \* the chunks its first parse returned
  second_parse,         \* the chunks its second parse returned
  tree,                 \* the files under TARGET_DIR, as paths relative to it
  dirs_pending,         \* os.walk: the directories still to visit
  walked                \* os.walk: the files appended to all_files so far

ingestLocals ==
  <<FULL_RESET, driver, previous_state, current_state, all_files,
    files_to_embed, files_to_delete, unchanged_files,
    chunks_to_upsert, all_chunks_for_graph>>
graphVars == <<gphase, builds, adds>>
extractVars == <<call_text, extracted, ncaptures>>
reparseVars == <<parsed_defs, first_parse, second_parse>>
walkVars == <<tree, dirs_pending, walked>>
searchVars ==
  <<all_chunks, bm25, spc, query, top_k, exact_function_chunks,
    vector_candidates, bm25_candidates, candidates_before_rerank, final_results>>
stores == <<vstore, gstore, nextId>>

vars ==
  <<disk, stateFile, vstore, gstore, nextId, faults, pc, FULL_RESET, driver,
    previous_state, current_state, all_files, files_to_embed, files_to_delete,
    unchanged_files, chunks_to_upsert, all_chunks_for_graph, graph_builder,
    runStartFile, crashed_in, gphase, builds, adds, all_chunks, bm25, spc,
    query, top_k, exact_function_chunks, vector_candidates, bm25_candidates,
    candidates_before_rerank, final_results, console, call_text, extracted,
    ncaptures, parsed_defs, first_parse, second_parse, tree, dirs_pending,
    walked>>

\* calculate_file_hash (a file that is not there hashes to None here: the
\* scan only hashes files it has just listed)
calculate_file_hash(p) == IF disk[p] = 0 THEN None ELSE md5(disk[p])

\* the units of the files as they are on a disk d, file by file
UnitsOnDisk(d) == Flatten([i \in DOMAIN PathOrder |-> parse(PathOrder[i], d[PathOrder[i]])])

\* both stores as a deployment that indexed the files of disk d left them: one
\* point and one node per unit, the edges of the graph built over all units
EarlierIndex(d) ==
  LET b == build_call_graph(AddAll(NewBuilder, UnitsOnDisk(d))) IN
  [points |-> {PointOf(b.chunks[i], i) : i \in DOMAIN b.chunks},
   graph |-> save_graph_data(EmptyGraph, TRUE, b.chunks, EdgeSet(b)),
   state |-> ValidFile([p \in Paths |-> IF d[p] = 0 THEN None ELSE md5(d[p])]),
   nextId |-> Len(b.chunks) + 1]

\* nothing has failed yet: the files whose parsing, the paths whose deletion
\* and the batches (numbered from 1, as printed) whose upsert raised
NoErrors == [parse_errors |-> <<>>, delete_errors |-> <<>>, batch_errors |-> <<>>]

\* extract_calls has not been called
NoExtraction == call_text = <<>> /\ extracted = {} /\ ncaptures = 0

\* no file has been parsed twice
NoReparse == parsed_defs = <<>> /\ first_parse = <<>> /\ second_parse = <<>>

\* os.walk has not been started
NoWalk == tree = {} /\ dirs_pending = {} /\ walked = <<>>

\* no search engine has been constructed
NoEngine ==
  /\ all_chunks = <<>> /\ bm25 = FALSE /\ spc = "new"
  /\ query = {} /\ top_k = 1 /\ exact_function_chunks = <<>>
  /\ vector_candidates = <<>> /\ bm25_candidates = <<>>
  /\ candidates_before_rerank = <<>> /\ final_results = <<>>

\* the values of main()'s locals before they are assigned
LocalsInit ==
  /\ FULL_RESET = FALSE /\ driver = TRUE
  /\ previous_state = EmptyState /\ current_state = EmptyState
  /\ all_files = <<>> /\ files_to_embed = <<>> /\ files_to_delete = <<>>
  /\ unchanged_files = <<>> /\ chunks_to_upsert = <<>>
  /\ all_chunks_for_graph = <<>>

LocalsCleared ==
  /\ FULL_RESET' = FALSE /\ driver' = TRUE
  /\ previous_state' = EmptyState /\ current_state' = EmptyState
  /\ all_files' = <<>> /\ files_to_embed' = <<>> /\ files_to_delete' = <<>>
  /\ unchanged_files' = <<>> /\ chunks_to_upsert' = <<>>
  /\ all_chunks_for_graph' = <<>>
  /\ graph_builder' = NewBuilder

\* the process starts on a source tree and on backends that are either empty
\* or hold the index of that tree
InitWith(f) ==
  /\ disk \in [Paths -> 0..MaxVer]
  /\ \E indexed \in BOOLEAN :
       IF indexed
       THEN /\ vstore = EarlierIndex(disk).points
            /\ gstore = EarlierIndex(disk).graph
            /\ stateFile = EarlierIndex(disk).state
            /\ nextId = EarlierIndex(disk).nextId
       ELSE /\ vstore = {} /\ gstore = EmptyGraph
            /\ stateFile = AbsentFile /\ nextId = 1
  /\ faults = f
  /\ pc = "idle"
  /\ LocalsInit
  /\ graph_builder = NewBuilder
  /\ runStartFile = stateFile
  /\ crashed_in = "none"
  /\ gphase = "none" /\ builds = 0 /\ adds = 0
  /\ NoEngine
  /\ console = NoErrors
  /\ NoExtraction /\ NoReparse /\ NoWalk

Init == InitWith(FALSE)

\* outcomes of a backend call: it may raise only where backends may fail
Outcomes == IF faults THEN BOOLEAN ELSE {TRUE}
FailSets(S) == IF faults THEN SUBSET S ELSE {{}}

\* main(), lines 54-86: option parsing, construction of the parser, the
\* builder and the stores, and the reset of a full run
Begin(full) ==
  /\ pc = "idle"
  /\ nextId < MaxId
  /\ FULL_RESET' = full
  /\ \E drv \in Outcomes, recreated \in Outcomes :
       /\ driver' = drv
       /\ IF full
          THEN /\ vstore' = IF recreated THEN recreate_collection(vstore) ELSE vstore
               /\ gstore' = clear_all_data(gstore, drv)
               /\ stateFile' = AbsentFile
               /\ previous_state' = EmptyState
          ELSE /\ previous_state' = load_state(stateFile)
               /\ UNCHANGED <<vstore, gstore, stateFile>>
  /\ graph_builder' = NewBuilder
  /\ gphase' = "accumulating" /\ builds' = 0 /\ adds' = 0
  /\ runStartFile' = stateFile
  /\ crashed_in' = "none"
  /\ console' = NoErrors
  /\ pc' = "detect"
  /\ UNCHANGED <<disk, nextId, faults, current_state, all_files, files_to_embed,
                 files_to_delete, unchanged_files, chunks_to_upsert,
                 all_chunks_for_graph, searchVars, extractVars, reparseVars, walkVars>>

\* the scan of lines 93-106: the files on disk, in os.walk order
ScanFiles == SelectSeq(PathOrder, LAMBDA p : disk[p] # 0)

\* the loop queueing only the files without a previous record
ToEmbed_new_only(full, prev, files) ==
  IF full THEN files
  ELSE SelectSeq(files, LAMBDA p : prev[p] = None)

\* lines 114-133: what the loop appends to files_to_embed
ToEmbed(full, prev, files) ==
  IF full THEN files
  ELSE SelectSeq(files, LAMBDA p : prev[p] # calculate_file_hash(p))

\* lines 125-130: the modified files, appended to files_to_delete
Modified(full, prev, files) ==
  IF full THEN <<>>
  ELSE SelectSeq(files, LAMBDA p : prev[p] # calculate_file_hash(p) /\ prev[p] # None)

\* lines 132-133: what the loop appends to unchanged_files
Unchanged(full, prev, files) ==
  IF full THEN <<>>
  ELSE SelectSeq(files, LAMBDA p : prev[p] = calculate_file_hash(p))

\* lines 136-140: the recorded paths that the scan did not list
Deleted(full, prev, files) ==
  IF full THEN <<>>
  ELSE SelectSeq(PathOrder, LAMBDA p : prev[p] # None /\ p \notin Range(files))

\* a detection that writes the state file before it returns
Detect_saving ==
  /\ pc = "detect"
  /\ all_files' = ScanFiles
  /\ current_state' = [p \in Paths |-> calculate_file_hash(p)]
  /\ files_to_embed' = ToEmbed(FULL_RESET, previous_state, ScanFiles)
  /\ files_to_delete' = Modified(FULL_RESET, previous_state, ScanFiles)
                          \o Deleted(FULL_RESET, previous_state, ScanFiles)
  /\ unchanged_files' = Unchanged(FULL_RESET, previous_state, ScanFiles)
  /\ pc' = IF ~FULL_RESET /\ files_to_embed' = <<>> /\ files_to_delete' = <<>>
           THEN "done" ELSE "delete"
  /\ stateFile' = save_state_dump(current_state')
  /\ UNCHANGED <<disk, stores, faults, FULL_RESET, driver,
                 previous_state, chunks_to_upsert, all_chunks_for_graph,
                 graph_builder, runStartFile, crashed_in, graphVars, searchVars, console, extractVars, reparseVars, walkVars>>

\* main(), lines 91-145: scan, classification and the early return
Detect ==
  /\ pc = "detect"
  /\ all_files' = ScanFiles
  /\ current_state' = [p \in Paths |-> calculate_file_hash(p)]
  /\ files_to_embed' = ToEmbed(FULL_RESET, previous_state, ScanFiles)
  /\ files_to_delete' = Modified(FULL_RESET, previous_state, ScanFiles)
                          \o Deleted(FULL_RESET, previous_state, ScanFiles)
  /\ unchanged_files' = Unchanged(FULL_RESET, previous_state, ScanFiles)
  /\ pc' = IF ~FULL_RESET /\ files_to_embed' = <<>> /\ files_to_delete' = <<>>
           THEN "done" ELSE "delete"
  /\ UNCHANGED <<disk, stateFile, stores, faults, FULL_RESET, driver,
                 previous_state, chunks_to_upsert, all_chunks_for_graph,
                 graph_builder, runStartFile, crashed_in, graphVars, searchVars, console, extractVars, reparseVars, walkVars>>

\* lines 166-167: the paths whose delete raised, in the order of the loop
delete_errors(paths, failed) ==
  LET idx == SelectSeq([i \in DOMAIN paths |-> i], LAMBDA i : i \in failed)
  IN [k \in DOMAIN idx |-> paths[idx[k]]]

\* main(), lines 150-167: the obsolete points are deleted path by path
DeleteObsolete ==
  /\ pc = "delete"
  /\ \E failed \in FailSets(DOMAIN files_to_delete) :
       IF ~FULL_RESET /\ files_to_delete # <<>>
       THEN /\ vstore' = delete_by_filepath(vstore, files_to_delete, failed)
            /\ console' = [console EXCEPT !.delete_errors =
                              delete_errors(files_to_delete, failed)]
       ELSE UNCHANGED <<vstore, console>>
  /\ pc' = "parse"
  /\ UNCHANGED <<disk, stateFile, gstore, nextId, faults, ingestLocals,
                 graph_builder, runStartFile, crashed_in, graphVars, searchVars, extractVars, reparseVars, walkVars>>

\* the chunks the loop of lines 181-195 gets for one file
ParsedChunks(p) ==
  LET r == parse_file(p, disk[p]) IN IF r.raised THEN <<>> ELSE r.chunks

\* a parse loop that gives up at the first file that raises
parse_errors_first(files) ==
  LET errs == SelectSeq(files, LAMBDA p : parse_file(p, disk[p]).raised)
  IN IF errs = <<>> THEN <<>> ELSE <<Head(errs)>>

\* lines 194-195: the files for which the body of the loop raised, in the
\* order of the loop
parse_errors(files) ==
  SelectSeq(files, LAMBDA p : parse_file(p, disk[p]).raised)

\* main(), lines 174-195: every file is parsed, its chunks go to the builder
\* and, for a file to embed, to chunks_to_upsert
ParseAll ==
  /\ pc = "parse"
  /\ LET perFile == [i \in DOMAIN all_files |-> ParsedChunks(all_files[i])]
         embed == [i \in DOMAIN all_files |->
                     IF FULL_RESET \/ all_files[i] \in Range(files_to_embed)
                     THEN perFile[i] ELSE <<>>]
     IN /\ all_chunks_for_graph' = Flatten(perFile)
        /\ graph_builder' = AddAll(graph_builder, Flatten(perFile))
        /\ chunks_to_upsert' = Flatten(embed)
  /\ console' = [console EXCEPT !.parse_errors = parse_errors(all_files)]
  /\ pc' = "upsert"
  /\ adds' = Len(all_chunks_for_graph')
  /\ UNCHANGED <<gphase, builds>>
  /\ UNCHANGED <<disk, stateFile, stores, faults, FULL_RESET, driver,
                 previous_state, current_state, all_files, files_to_embed,
                 files_to_delete, unchanged_files, runStartFile, crashed_in,
                 searchVars, extractVars, reparseVars, walkVars>>

\* the batches upsert_chunks cuts a list of n chunks into
Batches(n) == {BatchOf(i) : i \in 1..n}

\* database.py lines 154-155: the printed numbers i // batch_size + 1 of the
\* batches that raised, in the order of the loop
batch_errors(n, failed) ==
  LET nb == (n + BatchSize - 1) \div BatchSize
  IN SelectSeq([b \in 1..nb |-> b], LAMBDA b : (b - 1) \in failed)

\* main(), lines 200-205
UpsertChanged ==
  /\ pc = "upsert"
  /\ \E failed \in FailSets(Batches(Len(chunks_to_upsert))) :
       IF chunks_to_upsert # <<>>
       THEN /\ vstore' = upsert_chunks(vstore, chunks_to_upsert, nextId, failed)
            /\ console' = [console EXCEPT !.batch_errors =
                              batch_errors(Len(chunks_to_upsert), failed)]
       ELSE UNCHANGED <<vstore, console>>
  /\ nextId' = nextId + Len(chunks_to_upsert)
  /\ pc' = "graph"
  /\ UNCHANGED <<disk, stateFile, gstore, faults, ingestLocals, graph_builder,
                 runStartFile, crashed_in, graphVars, searchVars, extractVars, reparseVars, walkVars>>

\* a sync that builds the graph a second time before it writes it
SyncGraph_twice ==
  /\ pc = "graph"
  /\ graph_builder' = build_call_graph(build_call_graph(graph_builder))
  /\ gstore' = save_graph_data(
                  IF FULL_RESET THEN clear_all_data(gstore, driver) ELSE gstore,
                  driver, all_chunks_for_graph, EdgeSet(graph_builder'))
  /\ pc' = "save"
  /\ gphase' = "built" /\ builds' = builds + 2
  /\ UNCHANGED adds
  /\ UNCHANGED <<disk, stateFile, vstore, nextId, faults, ingestLocals,
                 runStartFile, crashed_in, searchVars, console, extractVars, reparseVars, walkVars>>

\* main(), lines 212-217: the graph is built and written to the graph store
SyncGraph ==
  /\ pc = "graph"
  /\ graph_builder' = build_call_graph(graph_builder)
  /\ gstore' = save_graph_data(
                  IF FULL_RESET THEN clear_all_data(gstore, driver) ELSE gstore,
                  driver, all_chunks_for_graph, EdgeSet(graph_builder'))
  /\ pc' = "save"
  /\ gphase' = "built" /\ builds' = builds + 1
  /\ UNCHANGED adds
  /\ UNCHANGED <<disk, stateFile, vstore, nextId, faults, ingestLocals,
                 runStartFile, crashed_in, searchVars, console, extractVars, reparseVars, walkVars>>

\* save_state, line 47: the state file is opened for writing
SaveOpen ==
  /\ pc = "save"
  /\ stateFile' = save_state_open(stateFile)
  /\ pc' = "dump"
  /\ UNCHANGED <<disk, stores, faults, ingestLocals, graph_builder,
                 runStartFile, crashed_in, graphVars, searchVars, console, extractVars, reparseVars, walkVars>>

\* save_state, line 48, and the end of main()
SaveDump ==
  /\ pc = "dump"
  /\ stateFile' = save_state_dump(current_state)
  /\ pc' = "done"
  /\ UNCHANGED <<disk, stores, faults, ingestLocals, graph_builder,
                 runStartFile, crashed_in, graphVars, searchVars, console, extractVars, reparseVars, walkVars>>

\* the process exits after a run that reached its end
Exit ==
  /\ pc = "done"
  /\ pc' = "idle"
  /\ LocalsCleared
  /\ gphase' = "none" /\ builds' = 0 /\ adds' = 0
  /\ UNCHANGED <<disk, stateFile, stores, faults, runStartFile, crashed_in,
                 searchVars, console, extractVars, reparseVars, walkVars>>

\* the process is killed in the middle of a run
Crash ==
  /\ pc \notin {"idle", "done"}
  /\ crashed_in' = pc
  /\ pc' = "idle"
  /\ LocalsCleared
  /\ gphase' = "none" /\ builds' = 0 /\ adds' = 0
  /\ UNCHANGED <<disk, stateFile, stores, faults, runStartFile, searchVars, console, extractVars, reparseVars, walkVars>>

\* between two runs a file is created, edited or removed
Edit(p, v) ==
  /\ pc = "idle"
  /\ disk[p] # v
  /\ disk' = [disk EXCEPT ![p] = v]
  /\ UNCHANGED <<stateFile, stores, faults, pc, ingestLocals, graph_builder,
                 runStartFile, crashed_in, graphVars, searchVars, console, extractVars, reparseVars, walkVars>>

Next ==
  \/ \E full \in BOOLEAN : Begin(full)
  \/ Detect
  \/ DeleteObsolete
  \/ ParseAll
  \/ UpsertChanged
  \/ SyncGraph
  \/ SaveOpen
  \/ SaveDump
  \/ Exit
  \/ Crash
  \/ \E p \in Paths, v \in 0..MaxVer : Edit(p, v)

Spec == Init /\ [][Next]_vars

(* ---------------- the graph phase on arbitrary chunk lists ------------- *)
\* a CodeChunk as a producer other than the Python parser fills it in
Unit(name, type, qn, fp, mp, imports, calls, ui, inh) ==
  [name |-> name, type |-> type, content |-> 1, filepath |-> fp,
   qualified_name |-> qn, module_path |-> mp, imports |-> imports,
   calls |-> calls, called_by |-> <<>>, ui_file |-> ui, inherits_ui |-> inh]

\* a.py:  def foo(): bar()      (a file in the working directory: the parent
\* directory "." gives the prefix "." and the candidate "..bar")
UnitFoo == Unit("foo", "function", <<"a", "foo">>, <<"a.py">>, <<"", "">>,
                {}, {<<"bar">>}, QnNone, FALSE)
\* b.py:  def bar(): pass
UnitBar == Unit("bar", "function", <<"b", "bar">>, <<"b.py">>, <<"", "">>,
                {}, {}, QnNone, FALSE)
\* pkg/m.py:  def run(): helper(); m.helper()   with helper imported from lib
UnitRun == Unit("run", "function", <<"pkg", "m", "run">>, <<"pkg", "m.py">>,
                <<"pkg">>, {<< <<"helper">>, <<"lib", "helper">> >>},
                {<<"helper">>, <<"m", "helper">>}, QnNone, FALSE)
\* pkg/m.py:  def helper(): pass
UnitHelper == Unit("helper", "function", <<"pkg", "m", "helper">>,
                   <<"pkg", "m.py">>, <<"pkg">>, {}, {}, QnNone, FALSE)
\* pkg/helper.py:  a class named helper, qualified pkg.helper
UnitPkgHelper == Unit("helper", "class", <<"pkg", "helper">>,
                      <<"pkg", "helper.py">>, <<"pkg">>, {}, {}, QnNone, FALSE)
\* lib.py:  def helper(): pass
UnitLibHelper == Unit("helper", "function", <<"lib", "helper">>, <<"lib.py">>,
                      <<"", "">>, {}, {}, QnNone, FALSE)
\* ui/dlg.py:  ui = uic.loadUiType("main.ui")[0]; class Dialog(QDialog, ui)
UnitDialog == Unit("Dialog", "class", <<"ui", "dlg", "Dialog">>,
                   <<"ui", "dlg.py">>, <<"ui">>, {}, {<<"okButton">>},
                   <<"main", "ui">>, TRUE)
\* the widget okButton of main.ui
UnitWidget == Unit("okButton", "ui_widget", <<"main", "ui", "okButton">>,
                   <<"main.ui">>, <<>>, {}, {}, QnNone, FALSE)

ChunkUniverse ==
  {UnitFoo, UnitBar, UnitRun, UnitHelper, UnitPkgHelper, UnitLibHelper,
   UnitDialog, UnitWidget}

\* a builder is created; the graph store holds nothing or an earlier index
InitGraph ==
  /\ disk = [p \in Paths |-> 0]
  /\ stateFile = AbsentFile
  /\ vstore = {}
  /\ gstore \in {EmptyGraph, EarlierIndex([p \in Paths |-> 1]).graph}
  /\ nextId = 1
  /\ faults = FALSE
  /\ pc = "idle"
  /\ FULL_RESET \in BOOLEAN
  /\ driver = TRUE
  /\ previous_state = EmptyState /\ current_state = EmptyState
  /\ all_files = <<>> /\ files_to_embed = <<>> /\ files_to_delete = <<>>
  /\ unchanged_files = <<>> /\ chunks_to_upsert = <<>>
  /\ all_chunks_for_graph = <<>>
  /\ graph_builder = NewBuilder
  /\ runStartFile = AbsentFile
  /\ crashed_in = "none"
  /\ gphase = "start" /\ builds = 0 /\ adds = 0
  /\ NoEngine
  /\ console = NoErrors
  /\ NoExtraction /\ NoReparse /\ NoWalk

graphFrame ==
  <<disk, stateFile, vstore, nextId, faults, pc, FULL_RESET, driver,
    previous_state, current_state, all_files, files_to_embed, files_to_delete,
    unchanged_files, chunks_to_upsert, runStartFile, crashed_in, searchVars, console, extractVars, reparseVars, walkVars>>

\* ingest.py lines 73-83: a full reset empties the graph store before any
\* chunk is produced
GReset ==
  /\ gphase = "start"
  /\ gstore' = IF FULL_RESET THEN clear_all_data(gstore, driver) ELSE gstore
  /\ gphase' = "accumulating"
  /\ UNCHANGED <<graphFrame, graph_builder, all_chunks_for_graph, builds, adds>>

\* ingest.py lines 186-188: a chunk goes to the builder and to the list
GAddChunk(c) ==
  /\ gphase \in {"accumulating", "built"}
  /\ adds < MaxAdds
  /\ graph_builder' = add_chunk(graph_builder, c)
  /\ all_chunks_for_graph' = Append(all_chunks_for_graph, c)
  /\ adds' = adds + 1
  /\ gphase' = "accumulating"
  /\ UNCHANGED <<graphFrame, gstore, builds>>

\* ingest.py line 212
GBuild ==
  /\ gphase \in {"accumulating", "built"}
  /\ builds < MaxBuilds
  /\ graph_builder' = build_call_graph(graph_builder)
  /\ builds' = builds + 1
  /\ gphase' = "built"
  /\ UNCHANGED <<graphFrame, gstore, all_chunks_for_graph, adds>>

\* ingest.py lines 215-217
GSync ==
  /\ gphase = "built"
  /\ gstore' = save_graph_data(
                  IF FULL_RESET THEN clear_all_data(gstore, driver) ELSE gstore,
                  driver, all_chunks_for_graph, EdgeSet(graph_builder))
  /\ gphase' = "synced"
  /\ UNCHANGED <<graphFrame, graph_builder, all_chunks_for_graph, builds, adds>>

NextGraph ==
  \/ GReset
  \/ \E c \in ChunkUniverse : GAddChunk(c)
  \/ GBuild
  \/ GSync

SpecGraph == InitGraph /\ [][NextGraph]_vars

(* ------------------------------ hybrid search ------------------------- *)
\* most points the collection holds when an engine is constructed
MaxCorpus == 2
\* largest top_k a caller passes
MaxTopK == 2
\* k of reciprocal_rank_fusion
RrfK == 60
\* the dense and the lexical stage are asked for top_k * 4 candidates
CandidateFactor == 4
\* candidates_before_rerank[:20]
RerankSlice == 20

Min(a, b) == IF a <= b THEN a ELSE b
Max(a, b) == IF a >= b THEN a ELSE b
\* s[:n]
Take(s, n) == SubSeq(s, 1, Min(n, Len(s)))
\* the orders in which the elements of a finite set can be listed
Orders(S) == {s \in [1..Cardinality(S) -> S] : Range(s) = S}
\* a list rearranged by a permutation of its positions
Rearranged(list, order) == [i \in DOMAIN list |-> list[order[i]]]

\* the payload of a point
Payload(pt) == [f \in (DOMAIN pt) \ {"id"} |-> pt[f]]

\* an indexed function
SearchPoint(id, name, qn, fp, content) ==
  PointOf([Unit(name, "function", qn, fp, <<>>, {}, {}, QnNone, FALSE)
             EXCEPT !.content = content], id)

\* m.py: load, File and go;  n.py: load;  and the point an earlier version of
\* m.load left in the collection
SearchPoints ==
  {SearchPoint(1, "load", <<"m", "load">>, <<"m.py">>, 1),
   SearchPoint(2, "load", <<"n", "load">>, <<"n.py">>, 1),
   SearchPoint(3, "File", <<"m", "File">>, <<"m.py">>, 1),
   SearchPoint(4, "go", <<"m", "go">>, <<"m.py">>, 1),
   SearchPoint(5, "load", <<"m", "load">>, <<"m.py">>, 2)}

\* the identifiers and the file names a query is made of
Words == {"load", "File", "go"}
FileNames == {"n.py"}
Queries == [words : SUBSET Words, files : SUBSET FileNames]

WordLen(w) == CASE w = "go" -> 2 [] w = "load" -> 4 [] w = "File" -> 4
\* c.lower()
lower(w) == IF w = "File" THEN "file" ELSE w
common_words ==
  {"what", "does", "how", "why", "where", "when", "function", "class",
   "method", "file", "code", "this", "that", "the", "is", "are", "do", "can",
   "will", "from"}

\* SmartSearchEngine._extract_function_names (no word of Words has a '_';
\* the words of a file name such as n.py are too short to be kept)
extract_function_names(q) ==
  {c \in q.words : WordLen(c) >= 3 /\ lower(c) \notin common_words}

\* SmartSearchEngine._extract_filenames
extract_filenames(q) == q.files

\* qn.endswith(f'.{target_name}')
EndsWithName(qn, target_name) == Len(qn) >= 2 /\ qn[Len(qn)] = target_name

RECURSIVE ExactScan(_, _, _)
\* the loop of _get_exact_function_chunks over the rest of the corpus
ExactScan(chs, function_names, seen_qns) ==
  IF chs = <<>> THEN <<>>
  ELSE LET chunk == Head(chs)
           qn == chunk.qualified_name
       IN IF qn \in seen_qns
          THEN ExactScan(Tail(chs), function_names, seen_qns)
          ELSE IF \E target_name \in function_names :
                     chunk.name = target_name \/ EndsWithName(qn, target_name)
               THEN <<chunk>> \o ExactScan(Tail(chs), function_names,
                                           seen_qns \cup {qn})
               ELSE ExactScan(Tail(chs), function_names, seen_qns)

\* SmartSearchEngine._get_exact_function_chunks
get_exact_function_chunks(corpus, function_names) ==
  IF function_names = {} \/ corpus = <<>> THEN <<>>
  ELSE ExactScan(corpus, function_names, {})

\* payload.get('qualified_name') or payload.get('filepath')
DocId(payload) ==
  IF payload.qualified_name # <<>> THEN payload.qualified_name
  ELSE payload.filepath

RECURSIVE Gcd(_, _)
Gcd(a, b) == IF b = 0 THEN a ELSE Gcd(b, a % b)

RECURSIVE RrfScale(_)
\* the least common multiple of k, k+1, ..., k+n-1: the scores 1/(k+rank) of
\* lists of at most n entries are whole numbers when multiplied by it
RrfScale(n) ==
  IF n = 0 THEN 1
  ELSE LET s == RrfScale(n - 1)
           d == RrfK + n - 1
       IN (s \div Gcd(s, d)) * d

\* 1 / (k + rank), times scale
RankScore(rank, scale) == scale \div (RrfK + rank)

RECURSIVE ListScore(_, _, _, _)
\* what the entries of one result list, from position i on, add to the score
\* of a document
ListScore(list, i, id, scale) ==
  IF i > Len(list) THEN 0
  ELSE (IF DocId(list[i]) = id THEN RankScore(i - 1, scale) ELSE 0)
       + ListScore(list, i + 1, id, scale)

RECURSIVE FirstDocs(_, _)
\* the 'doc' entries of fusion_scores in insertion order: the first payload
\* seen for every document id, entries without an id skipped
FirstDocs(list, seen) ==
  IF list = <<>> THEN <<>>
  ELSE LET id == DocId(Head(list)) IN
       IF id = <<>> \/ id \in seen THEN FirstDocs(Tail(list), seen)
       ELSE <<Head(list)>> \o FirstDocs(Tail(list), seen \cup {id})

\* the scaled fusion score of every document of two result lists
FusionScores(payloads, bm25_results) ==
  LET scale == RrfScale(Max(Len(payloads), Len(bm25_results)))
      ids == {DocId(d) : d \in Range(payloads) \cup Range(bm25_results)}
  IN [id \in ids |-> ListScore(payloads, 1, id, scale)
                      + ListScore(bm25_results, 1, id, scale)]

RECURSIVE InsertByScore(_, _, _)
\* d goes behind every entry whose score is not below its own
InsertByScore(d, sorted, score) ==
  IF sorted = <<>> THEN <<d>>
  ELSE IF score[DocId(Head(sorted))] >= score[DocId(d)]
       THEN <<Head(sorted)>> \o InsertByScore(d, Tail(sorted), score)
       ELSE <<d>> \o sorted

RECURSIVE SortedByScore(_, _, _)
\* sorted(..., key=score, reverse=True): descending and stable
SortedByScore(docs, acc, score) ==
  IF docs = <<>> THEN acc
  ELSE SortedByScore(Tail(docs), InsertByScore(Head(docs), acc, score), score)

\* a fusion that only concatenates the two result lists
reciprocal_rank_fusion_concat(vector_results, bm25_results) ==
  [i \in DOMAIN vector_results |-> Payload(vector_results[i])] \o bm25_results

\* SmartSearchEngine.reciprocal_rank_fusion
reciprocal_rank_fusion(vector_results, bm25_results) ==
  LET payloads == [i \in DOMAIN vector_results |-> Payload(vector_results[i])]
  IN SortedByScore(FirstDocs(payloads \o bm25_results, {}), <<>>,
                   FusionScores(payloads, bm25_results))

\* a promotion that prepends the exact matches and keeps every fused
\* candidate
PromoteExact_keep(exact, candidates) ==
  IF exact = <<>> THEN candidates ELSE exact \o candidates

\* search(), step 4.5: the exact matches replace their fused candidates and
\* go to the front
PromoteExact(exact, candidates) ==
  IF exact = <<>> THEN candidates
  ELSE LET exact_qns == {c.qualified_name : c \in Range(exact)} IN
       exact \o SelectSeq(candidates, LAMBDA c : c.qualified_name \notin exact_qns)

\* a reranker that returns every result it scored
rerank_uncut(results, order, k) ==
  IF results = <<>> THEN <<>> ELSE Rearranged(results, order)

\* VectorStore.rerank: the results in the order of the cross-encoder scores,
\* cut to top_k
rerank(results, order, k) ==
  IF results = <<>> THEN <<>> ELSE Take(Rearranged(results, order), k)

\* the list search() hands to the reranker
RerankInput(exact, candidates) ==
  LET slice_for_rerank == Take(candidates, RerankSlice) IN
  IF exact # <<>>
  THEN SelectSeq(slice_for_rerank, LAMBDA c : c \notin Range(exact))
  ELSE slice_for_rerank

\* step 5 without the exact matches put back in front of the reranked rest
FinalResults_reranked_only(exact, candidates, k, order) ==
  IF Take(candidates, RerankSlice) = <<>> THEN <<>>
  ELSE rerank(RerankInput(exact, candidates), order,
              IF exact # <<>> THEN Max(1, k - Len(exact)) ELSE k)

\* search(), step 5
FinalResults(exact, candidates, k, order) ==
  IF Take(candidates, RerankSlice) = <<>> THEN <<>>
  ELSE IF exact # <<>>
       THEN Take(exact \o rerank(RerankInput(exact, candidates), order,
                                 Max(1, k - Len(exact))), k)
       ELSE rerank(RerankInput(exact, candidates), order, k)

\* the points of the collection that pass the file-name filter of search()
Filtered(vs, target_files) ==
  IF target_files = {} THEN vs
  ELSE {pt \in vs : \E fname \in target_files : MatchText(<<fname>>, pt.filepath)}

\* the collection holds some points; no engine exists yet
InitSearch ==
  /\ disk = [p \in Paths |-> 0]
  /\ stateFile = AbsentFile
  /\ vstore \in {S \in SUBSET SearchPoints : Cardinality(S) <= MaxCorpus}
  /\ gstore = EmptyGraph
  /\ nextId = 1
  /\ faults = FALSE
  /\ pc = "idle"
  /\ LocalsInit
  /\ graph_builder = NewBuilder
  /\ runStartFile = AbsentFile
  /\ crashed_in = "none"
  /\ gphase = "none" /\ builds = 0 /\ adds = 0
  /\ NoEngine
  /\ console = NoErrors
  /\ NoExtraction /\ NoReparse /\ NoWalk

searchFrame == <<disk, stateFile, stores, faults, pc, ingestLocals, graph_builder,
                 runStartFile, crashed_in, graphVars, console, extractVars, reparseVars, walkVars>>

\* SmartSearchEngine.__init__: the corpus is scrolled out of the collection,
\* in the order of the point ids, which are random
EngineInit ==
  /\ spc = "new"
  /\ \E corpus \in Orders({Payload(pt) : pt \in vstore}) :
       /\ all_chunks' = corpus
       /\ bm25' = (corpus # <<>>)
  /\ spc' = "ready"
  /\ UNCHANGED <<searchFrame, query, top_k, exact_function_chunks,
                 vector_candidates, bm25_candidates, candidates_before_rerank,
                 final_results>>

\* search(), step 0
ExactMatch ==
  /\ spc = "ready"
  /\ \E q \in Queries, k \in 1..MaxTopK :
       /\ query' = q
       /\ top_k' = k
       /\ exact_function_chunks' =
            IF extract_function_names(q) # {}
            THEN get_exact_function_chunks(all_chunks, extract_function_names(q))
            ELSE <<>>
  /\ spc' = "exact"
  /\ UNCHANGED <<searchFrame, all_chunks, bm25, vector_candidates,
                 bm25_candidates, candidates_before_rerank, final_results>>

\* search(), steps 1 to 4.5: the dense stage ranks the points that pass the
\* filter, BM25 ranks the whole corpus, both cut to top_k * 4; the lists are
\* fused and the exact matches promoted
Retrieve ==
  /\ spc = "exact"
  /\ \E dense \in Orders(Filtered(vstore, extract_filenames(query))),
        lexical \in Orders(Range(all_chunks)) :
       LET vc == Take(dense, top_k * CandidateFactor)
           bc == IF bm25 THEN Take(lexical, top_k * CandidateFactor) ELSE <<>>
       IN /\ vector_candidates' = vc
          /\ bm25_candidates' = bc
          /\ candidates_before_rerank' =
               PromoteExact(exact_function_chunks, reciprocal_rank_fusion(vc, bc))
  /\ spc' = "fused"
  /\ UNCHANGED <<searchFrame, all_chunks, bm25, query, top_k,
                 exact_function_chunks, final_results>>

\* search(), step 5
Rerank ==
  /\ spc = "fused"
  /\ \E order \in Orders(DOMAIN RerankInput(exact_function_chunks,
                                            candidates_before_rerank)) :
       final_results' = FinalResults(exact_function_chunks,
                                     candidates_before_rerank, top_k, order)
  /\ spc' = "ranked"
  /\ UNCHANGED <<searchFrame, all_chunks, bm25, query, top_k,
                 exact_function_chunks, vector_candidates, bm25_candidates,
                 candidates_before_rerank>>

NextSearch ==
  \/ EngineInit
  \/ ExactMatch
  \/ Retrieve
  \/ Rerank

SpecSearch == InitSearch /\ [][NextSearch]_vars


(* ------------------- search() on a large collection ------------------- *)
\* most points of the large collection
MaxRankDocs == 23
\* largest top_k asked of it
MaxRankK == 22
\* most points of it that carry the name the query mentions
MaxNamed == 2

\* point i of a collection whose first named points are functions "load", the
\* others functions "go", each in a package one level deeper than the last
RankPoint(i, named) ==
  LET nm == IF i <= named THEN "load" ELSE "go" IN
  SearchPoint(i, nm, [k \in 1..i |-> "m"] \o <<nm>>, <<"m.py">>, 1)

\* s[-n:]
LastOf(s, n) == SubSeq(s, Len(s) - Min(n, Len(s)) + 1, Len(s))

\* two of the orders in which a reranker can put n results
RankOrders(n) == {[i \in 1..n |-> i], [i \in 1..n |-> n + 1 - i]}

\* search() has reached step 5 on a collection of n points: an engine holds
\* the corpus, the dense stage returned the first top_k * 4 points, BM25 the
\* last top_k * 4 chunks, and the fused list holds every document of the two
\* once (the scores only decide its order) behind the exact matches
InitRank ==
  /\ disk = [p \in Paths |-> 0]
  /\ stateFile = AbsentFile
  /\ gstore = EmptyGraph
  /\ faults = FALSE
  /\ pc = "idle"
  /\ LocalsInit
  /\ graph_builder = NewBuilder
  /\ runStartFile = AbsentFile
  /\ crashed_in = "none"
  /\ gphase = "none" /\ builds = 0 /\ adds = 0
  /\ console = NoErrors
  /\ NoExtraction /\ NoReparse /\ NoWalk
  /\ \E n \in 0..MaxRankDocs, named \in 0..MaxNamed, k \in 1..MaxRankK,
        q \in {qq \in Queries : qq.files = {} /\ qq.words \subseteq {"load"}} :
       LET points == [i \in 1..n |-> RankPoint(i, named)]
           corpus == [i \in 1..n |-> Payload(points[i])]
           exact == IF extract_function_names(q) # {}
                    THEN get_exact_function_chunks(corpus, extract_function_names(q))
                    ELSE <<>>
           vc == Take(points, k * CandidateFactor)
           bc == LastOf(corpus, k * CandidateFactor)
       IN /\ vstore = Range(points)
          /\ nextId = n + 1
          /\ all_chunks = corpus
          /\ bm25 = (corpus # <<>>)
          /\ query = q
          /\ top_k = k
          /\ exact_function_chunks = exact
          /\ vector_candidates = vc
          /\ bm25_candidates = bc
          /\ candidates_before_rerank =
               PromoteExact(exact,
                            FirstDocs([i \in DOMAIN vc |-> Payload(vc[i])] \o bc, {}))
          /\ final_results = <<>>
          /\ spc = "fused"

\* search(), step 5, with the reranker putting the slice in one of RankOrders
RerankSlice20 ==
  /\ spc = "fused"
  /\ \E order \in RankOrders(Len(RerankInput(exact_function_chunks,
                                             candidates_before_rerank))) :
       final_results' = FinalResults(exact_function_chunks,
                                     candidates_before_rerank, top_k, order)
  /\ spc' = "ranked"
  /\ UNCHANGED <<searchFrame, all_chunks, bm25, query, top_k,
                 exact_function_chunks, vector_candidates, bm25_candidates,
                 candidates_before_rerank>>

NextRank == RerankSlice20

SpecRank == InitRank /\ [][NextRank]_vars

(* ----------------------- a run on failing backends -------------------- *)
\* most chunks one call of upsert_chunks is handed
MaxChunks == 11

\* n chunks as a working producer hands them to upsert_chunks: function u of
\* n modules, each one package deeper than the last
ManyChunks(n) ==
  [i \in 1..n |-> Unit("u", "function", [k \in 1..i |-> "m"] \o <<"u">>,
                       <<"many.py">>, <<>>, {}, {}, QnNone, FALSE)]

\* the backends may fail from the start
InitFaulty == InitWith(TRUE)

\* VectorStore.upsert_chunks called on a list of n chunks
UpsertBatches(n) ==
  /\ pc = "idle"
  /\ \E failed \in FailSets(Batches(n)) :
       /\ vstore' = upsert_chunks(vstore, ManyChunks(n), nextId, failed)
       /\ console' = [NoErrors EXCEPT !.batch_errors = batch_errors(n, failed)]
  /\ chunks_to_upsert' = ManyChunks(n)
  /\ nextId' = nextId + n
  /\ pc' = "called"
  /\ UNCHANGED <<disk, stateFile, gstore, faults, FULL_RESET, driver,
                 previous_state, current_state, all_files, files_to_embed,
                 files_to_delete, unchanged_files, all_chunks_for_graph,
                 graph_builder, runStartFile, crashed_in, graphVars, searchVars,
                 extractVars, reparseVars, walkVars>>

\* files are edited, then one run of main() is made, or upsert_chunks is
\* called on its own
NextFaulty ==
  \/ \E p \in Paths, v \in 0..MaxVer : Edit(p, v)
  \/ \E full \in BOOLEAN : Begin(full)
  \/ Detect
  \/ DeleteObsolete
  \/ ParseAll
  \/ UpsertChanged
  \/ SyncGraph
  \/ SaveOpen
  \/ SaveDump
  \/ \E n \in 1..MaxChunks : UpsertBatches(n)

SpecFaulty == InitFaulty /\ [][NextFaulty]_vars

(* ------------- a run for every outcome of the parser call ------------- *)
\* line 183 for one file: the call raises, as it does on an ASTParser that
\* has no parse_file, or it returns the chunks ASTParser.parse gives for the
\* file (the files of returning)
LoopChunks(p, returning) ==
  IF p \in returning THEN parse(p, disk[p]) ELSE ParsedChunks(p)

\* main(), lines 174-195, the parser call returning for the files of
\* returning: the chunks of every file go to the builder and, for a file to
\* embed, to chunks_to_upsert
ParseLoop(returning) ==
  /\ pc = "parse"
  /\ returning \subseteq Range(all_files)
  /\ LET perFile == [i \in DOMAIN all_files |-> LoopChunks(all_files[i], returning)]
         embed == [i \in DOMAIN all_files |->
                     IF FULL_RESET \/ all_files[i] \in Range(files_to_embed)
                     THEN perFile[i] ELSE <<>>]
     IN /\ all_chunks_for_graph' = Flatten(perFile)
        /\ graph_builder' = AddAll(graph_builder, Flatten(perFile))
        /\ chunks_to_upsert' = Flatten(embed)
  /\ console' = [console EXCEPT !.parse_errors =
                   SelectSeq(parse_errors(all_files), LAMBDA p : p \notin returning)]
  /\ adds' = Len(all_chunks_for_graph')
  /\ pc' = "upsert"
  /\ UNCHANGED <<disk, stateFile, stores, faults, FULL_RESET, driver,
                 previous_state, current_state, all_files, files_to_embed,
                 files_to_delete, unchanged_files, runStartFile, crashed_in,
                 gphase, builds, searchVars, extractVars, reparseVars, walkVars>>

\* files are edited, then one run of main() is made
NextPipeline ==
  \/ \E p \in Paths, v \in 0..MaxVer : Edit(p, v)
  \/ \E full \in BOOLEAN : Begin(full)
  \/ Detect
  \/ DeleteObsolete
  \/ \E returning \in SUBSET Paths : ParseLoop(returning)
  \/ UpsertChanged
  \/ SyncGraph
  \/ SaveOpen
  \/ SaveDump

SpecPipeline == Init /\ [][NextPipeline]_vars

(* ------------------------------ parsing ------------------------------- *)
\* most files one pass of the parse loop handles
MaxParsed == 2
\* most definitions the structure query captures in one file
MaxDefs == 2

\* files under the working directory and files of a source tree beside it
ParsePaths ==
  {<<"pkg", "a.py">>, <<"pkg", "a", "b.py">>,
   <<"..", "lib", "a.py">>, <<"..", "lib", "x", "a.py">>}

\* a captured definition: its name and the names of the definitions around it
CapturedDefs ==
  {[name |-> n, scope |-> sc, calls |-> {}] : n \in {"b", "f"}, sc \in {<<>>, <<"b">>}}

\* what the structure query can capture in one file, in source order: a
\* definition inside b comes after the definition b that encloses it
FileDefs ==
  {ds \in UNION {[1..n -> CapturedDefs] : n \in 1..MaxDefs} :
     \A i \in DOMAIN ds :
        ds[i].scope # <<>> =>
           \E j \in 1..(i - 1) : ds[j].name = ds[i].scope[1] /\ ds[j].scope = <<>>}

\* _parse_code on a file in which the query captures defs: one chunk per
\* captured definition, its content being the text of that definition
parse_code(p, defs) == [i \in DOMAIN defs |-> ChunkOf(p, i, defs[i])]

\* a parser and a graph builder have been constructed
InitParse ==
  /\ disk = [p \in Paths |-> 0]
  /\ stateFile = AbsentFile
  /\ vstore = {} /\ gstore = EmptyGraph /\ nextId = 1
  /\ faults = FALSE
  /\ pc = "idle"
  /\ LocalsInit
  /\ graph_builder = NewBuilder
  /\ runStartFile = AbsentFile
  /\ crashed_in = "none"
  /\ gphase = "parsing" /\ builds = 0 /\ adds = 0
  /\ NoEngine
  /\ console = NoErrors
  /\ NoExtraction /\ NoReparse /\ NoWalk

\* ASTParser.parse on the next file, and the body of the loop of ingest.py
\* lines 186-188 on its chunks
ParseFile(p, defs) ==
  /\ gphase = "parsing"
  /\ Len(all_files) < MaxParsed
  /\ p \notin Range(all_files)
  /\ all_files' = Append(all_files, p)
  /\ all_chunks_for_graph' = all_chunks_for_graph \o parse_code(p, defs)
  /\ graph_builder' = AddAll(graph_builder, parse_code(p, defs))
  /\ UNCHANGED <<disk, stateFile, stores, faults, pc, FULL_RESET, driver,
                 previous_state, current_state, files_to_embed, files_to_delete,
                 unchanged_files, chunks_to_upsert, runStartFile, crashed_in,
                 graphVars, searchVars, console, extractVars, reparseVars, walkVars>>

NextParse == \E p \in ParsePaths, defs \in FileDefs : ParseFile(p, defs)

SpecParse == InitParse /\ [][NextParse]_vars

(* ----------------------- parsing one file twice ----------------------- *)
\* the call names extract_calls can find in the body of a definition
CallNames == {<<"g">>, <<"h">>}

\* a captured definition and the set of names its body calls
CallingDefs ==
  {[name |-> n, scope |-> sc, calls |-> cs] :
      n \in {"b", "f"}, sc \in {<<>>, <<"b">>}, cs \in SUBSET CallNames}

\* the definitions of one file, in source order
CallingFiles ==
  {ds \in UNION {[1..n -> CallingDefs] : n \in 1..MaxDefs} :
     \A i \in DOMAIN ds :
        ds[i].scope # <<>> =>
           \E j \in 1..(i - 1) : ds[j].name = ds[i].scope[1] /\ ds[j].scope = <<>>}

\* the orders in which a process can iterate over a set of strings: the
\* order follows the string hashes, which are seeded per process
HashOrders == Orders(CallNames)

\* a list that keeps only the first name of the iteration
list_of_set_first(names, hash_order) ==
  LET l == SelectSeq(hash_order, LAMBDA n : n \in names)
  IN IF l = <<>> THEN l ELSE <<Head(l)>>

\* list(calls) of call_extractor.py line 92 and list(set(calls)) of
\* parser.py line 229: the names of the set in the iteration order of the
\* process
list_of_set(names, hash_order) == SelectSeq(hash_order, LAMBDA n : n \in names)

\* _parse_code in a process with the given iteration order: the chunk of
\* every captured definition, its calls being a list
parse_code_in(p, defs, hash_order) ==
  [i \in DOMAIN defs |->
     [ChunkOf(p, 1, defs[i]) EXCEPT
        !.calls = list_of_set(defs[i].calls, hash_order)]]

\* a file is on disk and has not been parsed
InitReparse ==
  /\ disk = [p \in Paths |-> 0]
  /\ stateFile = AbsentFile
  /\ vstore = {} /\ gstore = EmptyGraph /\ nextId = 1
  /\ faults = FALSE
  /\ pc = "idle"
  /\ LocalsInit
  /\ graph_builder = NewBuilder
  /\ runStartFile = AbsentFile
  /\ crashed_in = "none"
  /\ gphase = "reparse" /\ builds = 0 /\ adds = 0
  /\ NoEngine
  /\ console = NoErrors
  /\ NoExtraction /\ NoWalk
  /\ parsed_defs \in {<<p, defs>> : p \in {PathA, PathB}, defs \in CallingFiles}
  /\ first_parse = <<>> /\ second_parse = <<>>

reparseFrame ==
  <<disk, stateFile, stores, faults, pc, ingestLocals, graph_builder,
    runStartFile, crashed_in, graphVars, searchVars, console, extractVars,
    walkVars, parsed_defs>>

\* ASTParser.parse on the file, in one process
FirstParse(hash_order) ==
  /\ gphase = "reparse"
  /\ first_parse = <<>>
  /\ first_parse' = parse_code_in(parsed_defs[1], parsed_defs[2], hash_order)
  /\ UNCHANGED <<reparseFrame, second_parse>>

\* ASTParser.parse on the same unchanged file, in a process of its own
SecondParse(hash_order) ==
  /\ gphase = "reparse"
  /\ first_parse # <<>> /\ second_parse = <<>>
  /\ second_parse' = parse_code_in(parsed_defs[1], parsed_defs[2], hash_order)
  /\ UNCHANGED <<reparseFrame, first_parse>>

NextReparse ==
  \/ \E o \in HashOrders : FirstParse(o)
  \/ \E o \in HashOrders : SecondParse(o)

SpecReparse == InitReparse /\ [][NextReparse]_vars

(* ------------------------------ the file scan -------------------------- *)
\* most files of a source tree
MaxTree == 2

\* a file or directory name is a sequence of tokens: a leading dot is the
\* token ".", a suffix such as ".py" is a token
Dot == "."
IGNORE_DIRS ==
  {<<Dot, "git">>, <<Dot, "venv">>, <<"venv">>, <<"env">>, <<"__pycache__">>,
   <<"node_modules">>, <<"dist">>, <<"build">>, <<Dot, "idea">>,
   <<Dot, "vscode">>, <<"site-packages">>, <<"egg-info">>}
IGNORE_FILES ==
  {<<Dot, "DS_Store">>, <<"poetry", ".lock">>, <<"package-lock", ".json">>,
   <<Dot, "gitignore">>}

\* TARGET_DIR, the default ./data
TARGET_DIR == << <<"data">> >>

\* the directory and file names of the sampled trees
DirNames == {<<"pkg">>, <<"sub">>, <<"venv">>, <<Dot, "git">>}
TreeFileNames == {<<"a", ".py">>, <<Dot, "h", ".py">>, <<"poetry", ".lock">>}
\* the directories of a tree, relative to TARGET_DIR
DirPaths ==
  {<<>>} \cup {<<d>> : d \in DirNames} \cup {<<d, e>> : d, e \in DirNames}
\* the files a tree can hold, relative to TARGET_DIR
TreePaths == {d \o <<f>> : d \in DirPaths, f \in TreeFileNames}
RECURSIVE TreesUpTo(_)
\* the sets of at most n files
TreesUpTo(n) ==
  IF n = 0 THEN {{}}
  ELSE TreesUpTo(n - 1) \cup {t \cup {p} : t \in TreesUpTo(n - 1), p \in TreePaths}
Trees == TreesUpTo(MaxTree) \ {{}}

\* name.startswith('.')
startswith_dot(name) == name # <<>> /\ name[1] = Dot
\* file.endswith('.py')
endswith_py(name) == name # <<>> /\ name[Len(name)] = ".py"

\* whether path.relative_to(root_path) returns (it raises ValueError when
\* root_path is not a prefix of path)
IsUnder(path, root_path) ==
  Len(path) >= Len(root_path) /\ SubSeq(path, 1, Len(root_path)) = root_path
\* path.relative_to(root_path).parts
relative_parts(path, root_path) == SubSeq(path, Len(root_path) + 1, Len(path))

\* a filter that only looks the name up in the two ignore sets
should_skip_path_names(path, root_path) ==
  path[Len(path)] \in IGNORE_DIRS \/ path[Len(path)] \in IGNORE_FILES

\* should_skip_path
should_skip_path(path, root_path) ==
  LET name == path[Len(path)] IN
  IF name \in IGNORE_DIRS \/ name \in IGNORE_FILES THEN TRUE
  ELSE IF startswith_dot(name) /\ name # <<Dot>> THEN TRUE
  ELSE IF IsUnder(path, root_path)
       THEN \E i \in DOMAIN relative_parts(path, root_path) :
               LET part == relative_parts(path, root_path)[i] IN
               part \in IGNORE_DIRS \/ (startswith_dot(part) /\ part # <<Dot>>)
       ELSE FALSE

\* the sub-directories and the files os.walk lists for directory d of the tree
SubDirs(d) ==
  {p[Len(d) + 1] : p \in {q \in tree : Len(q) > Len(d) + 1 /\ SubSeq(q, 1, Len(d)) = d}}
FilesIn(d) ==
  {p[Len(d) + 1] : p \in {q \in tree : Len(q) = Len(d) + 1 /\ SubSeq(q, 1, Len(d)) = d}}

\* os.walk(TARGET_DIR) is about to list the top directory of some tree
InitWalk ==
  /\ disk = [p \in Paths |-> 0]
  /\ stateFile = AbsentFile
  /\ vstore = {} /\ gstore = EmptyGraph /\ nextId = 1
  /\ faults = FALSE
  /\ pc = "idle"
  /\ LocalsInit
  /\ graph_builder = NewBuilder
  /\ runStartFile = AbsentFile
  /\ crashed_in = "none"
  /\ gphase = "walk" /\ builds = 0 /\ adds = 0
  /\ NoEngine
  /\ console = NoErrors
  /\ NoExtraction /\ NoReparse
  /\ tree \in Trees
  /\ dirs_pending = {<<>>}
  /\ walked = <<>>

\* main(), lines 95-106, for one directory: the sub-directories that pass
\* the filter stay in dirs and are walked later, the .py files that pass it
\* are appended to all_files
WalkDir(d) ==
  /\ gphase = "walk"
  /\ d \in dirs_pending
  /\ LET root_path == TARGET_DIR \o d
         dirs == {s \in SubDirs(d) :
                    ~should_skip_path(root_path \o <<s>>, TARGET_DIR)}
         files == {f \in FilesIn(d) :
                     endswith_py(f) /\ ~should_skip_path(root_path \o <<f>>, TARGET_DIR)}
     IN /\ dirs_pending' = (dirs_pending \ {d}) \cup {d \o <<s>> : s \in dirs}
        /\ walked' = walked \o SetToSeq({root_path \o <<f>> : f \in files})
  /\ UNCHANGED <<disk, stateFile, stores, faults, pc, ingestLocals,
                 graph_builder, runStartFile, crashed_in, graphVars,
                 searchVars, console, extractVars, reparseVars, tree>>

NextWalk == \E d \in DirPaths : WalkDir(d)

SpecWalk == InitWalk /\ [][NextWalk]_vars

(* ------------------------------ call extraction ----------------------- *)
\* Texts are sequences of one-character strings.
\* longest text the alphabet is enumerated to
MaxText == 3
\* most captures one call of extract_calls examines
MaxCaptures == 2

\* the characters str.strip() removes
WhiteSpace == {" ", "\t", "\n"}

RECURSIVE lstrip(_)
lstrip(t) == IF t # <<>> /\ Head(t) \in WhiteSpace THEN lstrip(Tail(t)) ELSE t
RECURSIVE rstrip(_)
rstrip(t) ==
  IF t # <<>> /\ t[Len(t)] \in WhiteSpace THEN rstrip(SubSeq(t, 1, Len(t) - 1)) ELSE t
\* name.strip()
strip(t) == rstrip(lstrip(t))

\* the set python_keywords of _is_valid_function_name
python_keywords ==
  {
   <<"a", "n", "d">>, <<"a", "s">>, <<"a", "s", "s", "e", "r", "t">>,
   <<"a", "s", "y", "n", "c">>, <<"a", "w", "a", "i", "t">>,
   <<"b", "r", "e", "a", "k">>, <<"c", "l", "a", "s", "s">>,
   <<"c", "o", "n", "t", "i", "n", "u", "e">>, <<"d", "e", "f">>,
   <<"d", "e", "l">>, <<"e", "l", "i", "f">>, <<"e", "l", "s", "e">>,
   <<"e", "x", "c", "e", "p", "t">>, <<"f", "i", "n", "a", "l", "l", "y">>,
   <<"f", "o", "r">>, <<"f", "r", "o", "m">>,
   <<"g", "l", "o", "b", "a", "l">>, <<"i", "f">>,
   <<"i", "m", "p", "o", "r", "t">>, <<"i", "n">>, <<"i", "s">>,
   <<"l", "a", "m", "b", "d", "a">>,
   <<"n", "o", "n", "l", "o", "c", "a", "l">>, <<"n", "o", "t">>,
   <<"o", "r">>, <<"p", "a", "s", "s">>, <<"r", "a", "i", "s", "e">>,
   <<"r", "e", "t", "u", "r", "n">>, <<"t", "r", "y">>,
   <<"w", "h", "i", "l", "e">>, <<"w", "i", "t", "h">>,
   <<"y", "i", "e", "l", "d">>
  }

\* the characters of the last test of _is_valid_function_name
special_chars == {" ", "=", "#", "<", ">", "(", ")", "[", "]", "{", "}", ":", ","}

\* the shortest and the longest name that is kept
MinNameLen == 2
MaxNameLen == 50

\* CallExtractor._is_valid_function_name
is_valid_function_name(name) ==
  IF name = <<>> THEN FALSE
  ELSE LET stripped == strip(name) IN
       IF stripped = <<>> THEN FALSE
       ELSE IF Len(stripped) < MinNameLen \/ Len(stripped) > MaxNameLen THEN FALSE
       ELSE IF stripped \in python_keywords THEN FALSE
       ELSE IF \E i \in DOMAIN stripped : stripped[i] \in special_chars THEN FALSE
       ELSE TRUE

\* the characters the short capture texts are made of
Alphabet == {"a", "f", " ", "\t", "(", "#"}
ShortTexts == UNION {[1..n -> Alphabet] : n \in 0..MaxText}

\* a name of n letters
LongName(n) == [i \in 1..n |-> "a"]

\* capture texts beyond the short ones: identifiers, keywords and constants
\* of the language, one text per special character, names at the length limits
SampleTexts ==
  python_keywords
  \cup {<<"a", ch, "b">> : ch \in special_chars}
  \cup {<<"a", "\n", "b">>}
  \cup {
   <<"T", "r", "u", "e">>, <<"F", "a", "l", "s", "e">>,
   <<"N", "o", "n", "e">>,
   <<"v", "a", "l", "i", "d", "a", "t", "e", "_", "e", "m", "a", "i", "l">>,
   <<"L", "o", "a", "d", "D", "a", "t", "a">>, <<"p", "r", "i", "n", "t">>
       }
  \cup {LongName(MaxNameLen), LongName(MaxNameLen + 1),
        Append(LongName(MaxNameLen), " ")}

CaptureTexts == ShortTexts \cup SampleTexts

\* extract_calls is called on the code of one chunk
InitExtract ==
  /\ disk = [p \in Paths |-> 0]
  /\ stateFile = AbsentFile
  /\ vstore = {} /\ gstore = EmptyGraph /\ nextId = 1
  /\ faults = FALSE
  /\ pc = "idle"
  /\ LocalsInit
  /\ graph_builder = NewBuilder
  /\ runStartFile = AbsentFile
  /\ crashed_in = "none"
  /\ gphase = "none" /\ builds = 0 /\ adds = 0
  /\ NoEngine
  /\ console = NoErrors
  /\ NoExtraction /\ NoReparse /\ NoWalk

\* extract_calls, one turn of the loop over the call captures: the text of the
\* capture is added to calls when the validator accepts it
ExamineCapture(t) ==
  /\ ncaptures < MaxCaptures
  /\ call_text' = t
  /\ extracted' = IF is_valid_function_name(t) THEN extracted \cup {t} ELSE extracted
  /\ ncaptures' = ncaptures + 1
  /\ UNCHANGED <<disk, stateFile, stores, faults, pc, ingestLocals, graph_builder,
                 runStartFile, crashed_in, graphVars, searchVars, console,
                 reparseVars, walkVars>>

NextExtract == \E t \in CaptureTexts : ExamineCapture(t)

SpecExtract == InitExtract /\ [][NextExtract]_vars

(* ====================== properties of the ingest run =================== *)
\* main() took the early return of line 145
EarlyReturn == ~FULL_RESET /\ files_to_embed = <<>> /\ files_to_delete = <<>>
\* main() ran to its last line
RunCompleted == pc = "done" /\ ~EarlyReturn

\* the points and nodes that carry the filepath of file p
FilePoints(p) == {pt \in vstore : pt.filepath = normalize_filepath(p)}
FileNodes(p) == {n \in gstore.nodes : n.filepath = normalize_filepath(p)}

\* the units of file p as it is on disk
CurrentUnits(p) == Range(parse(p, disk[p]))
AllCurrentUnits == UNION {CurrentUnits(p) : p \in Paths}

\* the points / nodes that stand for unit u
PointsFor(u) ==
  {pt \in vstore : pt.qualified_name = u.qualified_name /\ pt.content = u.content}
NodesFor(u) ==
  {n \in gstore.nodes : n.qualified_name = u.qualified_name /\ n.filepath = u.filepath}

\* C2: after an incremental run that completed, a file that the previous state
\* recorded and that is no longer on disk has no point in the vector store and
\* no node in the graph store.
C2_DeletedFileGone ==
  (RunCompleted /\ ~FULL_RESET) =>
     \A p \in Paths :
        (previous_state[p] # None /\ disk[p] = 0) =>
           FilePoints(p) = {} /\ FileNodes(p) = {}

\* C3: after a completed run both stores hold every unit of the current files
\* exactly once and nothing else.
C3_ExactlyOnce ==
  RunCompleted =>
     /\ \A u \in AllCurrentUnits :
           Cardinality(PointsFor(u)) = 1 /\ Cardinality(NodesFor(u)) = 1
     /\ \A pt \in vstore : \E u \in AllCurrentUnits : pt \in PointsFor(u)
     /\ \A n \in gstore.nodes : \E u \in AllCurrentUnits : n \in NodesFor(u)

\* C4: whenever the state file records the new hash of a file that the run
\* had to embed, every unit of that file is in the vector store.
C4_StateOnlyAfterUpsert ==
  \A p \in Range(files_to_embed) :
     (stateFile.kind = "valid" /\ stateFile.map[p] = md5(disk[p])) =>
        \A u \in CurrentUnits(p) : PointsFor(u) # {}

\* C5 (as claimed): a run killed while save_state persists the new map leaves a
\* complete state file, never a truncated one.
C5_AtomicReplace == crashed_in = "dump" => stateFile.kind # "partial"

\* C5 (amended): the state file is rewritten in place. A run killed while
\* save_state persists the new map leaves a truncated file, which load_state
\* reads as the empty state, and an incremental run that finds such a file
\* queues every eligible file for embedding and none for deletion.
C5_TruncatedInPlace ==
  /\ crashed_in = "dump" =>
        (stateFile = PartialFile /\ load_state(stateFile) = EmptyState)
  /\ (pc \notin {"idle", "detect"} /\ ~FULL_RESET /\ runStartFile.kind = "partial") =>
        (files_to_embed = all_files /\ files_to_delete = <<>>)

\* C5 witness: a run that found a complete state file was killed in save_state
C5_Witness == crashed_in = "dump" /\ runStartFile.kind = "valid"

\* C9: in an incremental run every file on disk is in exactly one of
\* files_to_embed (no record, or recorded hash differs) and unchanged_files
\* (hashes equal), each at most once; files_to_delete holds exactly the
\* modified files and the recorded paths that are not on disk; a file whose
\* content differs from the recorded one is never in unchanged_files.
C9_Classification ==
  (pc \notin {"idle", "detect"} /\ ~FULL_RESET) =>
     /\ \A p \in Paths :
          LET recorded == previous_state[p]
              on_disk == disk[p] # 0
              isNew == on_disk /\ recorded = None
              isModified == on_disk /\ recorded # None /\ recorded # md5(disk[p])
              isUnchanged == on_disk /\ recorded = md5(disk[p])
              isDeleted == ~on_disk /\ recorded # None
              count(l) == Cardinality({i \in DOMAIN l : l[i] = p})
          IN /\ on_disk => count(files_to_embed) + count(unchanged_files) = 1
             /\ ~on_disk => count(files_to_embed) + count(unchanged_files) = 0
             /\ count(files_to_embed) = 1 <=> (isNew \/ isModified)
             /\ count(unchanged_files) = 1 <=> isUnchanged
             /\ count(files_to_delete) = (IF isModified \/ isDeleted THEN 1 ELSE 0)
             /\ (runStartFile.kind = "valid" /\ on_disk
                   /\ runStartFile.map[p] # md5(disk[p])) => count(unchanged_files) = 0

\* C9 witness: a run that found one modified and one unchanged file
C9_Witness ==
  /\ pc = "delete" /\ ~FULL_RESET
  /\ Len(unchanged_files) = 1 /\ Len(files_to_delete) = 1 /\ Len(files_to_embed) = 1
  /\ files_to_delete = files_to_embed

\* C10: after an incremental run that completed, the vector store holds no
\* point of an earlier version of a file the run classified as modified.
C10_NoStaleVersion ==
  (RunCompleted /\ ~FULL_RESET) =>
     \A p \in Range(all_files) :
        p \in Range(files_to_delete) =>
           \A pt \in FilePoints(p) : pt.content = disk[p]

(* ====================== properties of the graph phase ================== *)
\* the chunk the builder holds under a qualified name
ChunkAt(b, qn) == b.chunks[CHOOSE i \in DOMAIN b.chunks : b.chunks[i].qualified_name = qn]

\* the module of a unit: its qualified name without the last segment
ModuleOf(qn) == SubSeq(qn, 1, Len(qn) - 1)

\* the units of the node set named n
Named(b, n) == {q \in NodeSet(b) : <<ChunkAt(b, q).name>> = n}

\* the target the three-step order of the claim gives call name n of unit u
ClaimedTarget(b, u, n) ==
  LET same == {q \in Named(b, n) : ModuleOf(q) = ModuleOf(u.qualified_name)}
      imp == ImportTarget(u, n)
  IN IF same # {} THEN CHOOSE q \in same : TRUE
     ELSE IF imp # QnNone /\ imp \in NodeSet(b) THEN imp
     ELSE IF Cardinality(Named(b, n)) = 1 THEN CHOOSE q \in Named(b, n) : TRUE
     ELSE QnNone

\* the non-widget units of a freshly built graph
BuiltUnits ==
  {graph_builder.chunks[i] : i \in
     {k \in DOMAIN graph_builder.chunks : graph_builder.chunks[k].type # "ui_widget"}}

\* C6: after the build every call name is resolved in the order
\* same module, import alias, unique local name; a.foo calling bar gets the
\* edge a.foo -> b.bar and b.bar.called_by is [a.foo].
C6_ThreeStepResolution ==
  (gphase = "built" /\ builds = 1) =>
     /\ \A u \in BuiltUnits : \A n \in u.calls :
           ClaimedTarget(graph_builder, u, n) # QnNone =>
              <<u.qualified_name, ClaimedTarget(graph_builder, u, n)>>
                 \in EdgeSet(graph_builder)
     /\ ({UnitFoo.qualified_name, UnitBar.qualified_name} \subseteq NodeSet(graph_builder)) =>
           ChunkAt(graph_builder, UnitBar.qualified_name).called_by
              = <<UnitFoo.qualified_name>>

C8_CalledByIsReverse ==
  gphase \in {"built", "synced"} =>
     \A i \in DOMAIN graph_builder.chunks :
        Range(graph_builder.chunks[i].called_by)
          = {e[1] : e \in {d \in EdgeSet(graph_builder) :
                             d[2] = graph_builder.chunks[i].qualified_name}}

\* C8 witness: a second build of a builder in which some unit has a caller
C8_Witness ==
  /\ gphase = "built" /\ builds = 2
  /\ \E i \in DOMAIN graph_builder.chunks : graph_builder.chunks[i].called_by # <<>>

(* ========================= properties of search() ===================== *)
\* a word of the query equals the local name of the corpus entry at i
NameInQuery(i) == all_chunks[i].name \in query.words

MatchedBefore(i) ==
  {all_chunks[j].qualified_name :
     j \in {h \in 1..(i - 1) :
              /\ \E t \in extract_function_names(query) :
                    \/ all_chunks[h].name = t
                    \/ EndsWithName(all_chunks[h].qualified_name, t)
              /\ all_chunks[h].qualified_name # all_chunks[i].qualified_name}}

UnitsToEmbed ==
  Flatten([i \in DOMAIN all_files |->
             IF FULL_RESET \/ all_files[i] \in Range(files_to_embed)
             THEN parse(all_files[i], disk[all_files[i]]) ELSE <<>>])

\* C11: once the parse loop of a run is over, the units of all eligible files
\* are in all_chunks_for_graph and in the graph builder, and chunks_to_upsert
\* holds exactly the units of the new and modified files (of all files in a
\* full reset).
C11_AllParsedChangedUpserted ==
  pc \in {"upsert", "graph", "save", "dump"} =>
     /\ all_chunks_for_graph = UnitsOnDisk(disk)
     /\ \A u \in Range(UnitsOnDisk(disk)) :
           u.qualified_name \in NodeSet(graph_builder)
     /\ chunks_to_upsert = UnitsToEmbed

\* the run found exactly one modified file and one unchanged file
OneFileChanged ==
  /\ ~FULL_RESET
  /\ Len(files_to_embed) = 1 /\ Len(unchanged_files) = 1
  /\ files_to_delete = files_to_embed

\* the edge between the two files: foo of data/a.py calls bar of data/data/b.py
EdgeFooBar ==
  <<resolve_fqn_from_ast(PathA, <<>>, "foo"), resolve_fqn_from_ast(PathB, <<>>, "bar")>>

\* C12: no step of an incremental run changes the points of a file the run
\* classified unchanged, and when a run in which only one file changed ends,
\* the built graph and the graph store hold the nodes of the units of both
\* files and the edge between them.
C12_UnchangedUntouchedGraphComplete ==
  [][/\ (pc \in {"delete", "parse", "upsert", "graph", "save", "dump"}
          /\ ~FULL_RESET) =>
           \A b \in Range(unchanged_files) :
              {pt \in vstore' : pt.filepath = normalize_filepath(b)}
                = {pt \in vstore : pt.filepath = normalize_filepath(b)}
     /\ (pc = "dump" /\ pc' = "done" /\ OneFileChanged) =>
           /\ \A u \in AllCurrentUnits :
                 /\ u.qualified_name \in NodeSet(graph_builder')
                 /\ \E n \in gstore'.nodes : n.qualified_name = u.qualified_name
           /\ EdgeFooBar \in EdgeSet(graph_builder')
           /\ EdgeFooBar \in gstore'.edges]_vars

\* C13: after a full-reset run that completed, every eligible file was queued
\* and embedded, and both stores and the state file hold exactly the index of
\* the files now on disk, whatever they held before the run.
C13_FullResetRebuildsAll ==
  (RunCompleted /\ FULL_RESET) =>
     /\ files_to_embed = all_files
     /\ \A u \in AllCurrentUnits : PointsFor(u) # {}
     /\ \A pt \in vstore : \E u \in AllCurrentUnits : pt \in PointsFor(u)
     /\ gstore.nodes = {NodeOf(u) : u \in AllCurrentUnits}
     /\ gstore.edges = EarlierIndex(disk).graph.edges
     /\ stateFile = EarlierIndex(disk).state

\* C17: an incremental run that finds a state file it cannot decode queues
\* every eligible file and, when it has completed, has embedded the units of
\* every eligible file.
C17_CorruptStateFullEmbed ==
  (~FULL_RESET /\ runStartFile.kind = "partial") =>
     /\ pc \notin {"idle", "detect"} =>
           (previous_state = EmptyState /\ files_to_embed = all_files)
     /\ RunCompleted => \A u \in AllCurrentUnits : PointsFor(u) # {}

LanguageKeywords ==
  python_keywords \cup {<<"T", "r", "u", "e">>, <<"F", "a", "l", "s", "e">>,
                        <<"N", "o", "n", "e">>}
\* the characters the validator is said to reject
RejectedChars ==
  WhiteSpace \cup {"#", "<", ">", "(", ")", "{", "}", "[", "]", ":", ","}

\* C16: a capture text that contains white space or one of # < > ( ) { } [ ] : ,
\* or is shorter than 2 or longer than 50 characters, or is a reserved word of
\* the language, is not added to the calls; validate_email and LoadData are.
C16_ValidatorRejectsAndAccepts ==
  ncaptures > 0 =>
     /\ (\/ \E i \in DOMAIN call_text : call_text[i] \in RejectedChars
         \/ Len(call_text) < 2 \/ Len(call_text) > 50
         \/ call_text \in LanguageKeywords)
          => call_text \notin extracted
     /\ call_text \in {<<"v", "a", "l", "i", "d", "a", "t", "e", "_", "e", "m", "a", "i", "l">>,
                       <<"L", "o", "a", "d", "D", "a", "t", "a">>}
          => call_text \in extracted

\* C14: the units the parser has produced have pairwise different
\* qualified_names, and the node map of the graph builder holds one entry per
\* unit (none was overwritten by another).
C14_QualifiedNameUnique ==
  /\ \A i, j \in DOMAIN all_chunks_for_graph :
        i # j => all_chunks_for_graph[i].qualified_name
                   # all_chunks_for_graph[j].qualified_name
  /\ Len(graph_builder.chunks) = Len(all_chunks_for_graph)

\* C15 as stated: search() never returns more than top_k results, and returns
\* exactly top_k whenever the exact matches and the fused candidates together
\* are at least top_k distinct candidates.
C15_ExactlyTopK ==
  spc = "ranked" =>
     /\ Len(final_results) <= top_k
     /\ Len(candidates_before_rerank) >= top_k => Len(final_results) = top_k

\* C15 as the code has it: search() never returns more than top_k results,
\* and returns exactly top_k whenever at least top_k distinct candidates exist
\* and top_k is not above the 20 candidates that go to the reranker.
C15_TopKWithinWindow ==
  spc = "ranked" =>
     /\ Len(final_results) <= top_k
     /\ (Len(candidates_before_rerank) >= top_k /\ top_k <= RerankSlice)
          => Len(final_results) = top_k

\* C15 witness: with an exact match and more than 20 candidates, a search for
\* 20 results has returned 20
C15_Witness ==
  /\ spc = "ranked"
  /\ exact_function_chunks # <<>>
  /\ top_k = RerankSlice
  /\ Len(candidates_before_rerank) > RerankSlice
  /\ Len(final_results) = top_k

\* s is t with some entries left out
RECURSIVE IsSubsequence(_, _)
IsSubsequence(s, t) ==
  IF s = <<>> THEN TRUE
  ELSE IF t = <<>> THEN FALSE
  ELSE IF Head(s) = Head(t) THEN IsSubsequence(Tail(s), Tail(t))
  ELSE IsSubsequence(s, Tail(t))

\* C19: the delete loop goes through all of files_to_delete: the deletions
\* that raised are printed in the order of the list, every other deletion has
\* been carried out, also behind one that raised, and main() goes on; and
\* upsert_chunks goes through all batches: the batches that raised are printed
\* in ascending order and have stored nothing, every chunk of every other
\* batch has a new point, also behind a batch that raised.
C19_FailuresDoNotStopLoops ==
  [][/\ (pc = "delete" /\ ~FULL_RESET /\ files_to_delete # <<>>) =>
          /\ pc' = "parse"
          /\ IsSubsequence(console'.delete_errors, files_to_delete)
          /\ \A i \in DOMAIN files_to_delete :
                files_to_delete[i] \notin Range(console'.delete_errors) =>
                   ~(\E pt \in vstore' : MatchText(files_to_delete[i], pt.filepath))
     /\ ((pc = "upsert" /\ chunks_to_upsert # <<>>) \/ pc' = "called") =>
          LET errs == console'.batch_errors
              new == vstore' \ vstore
          IN /\ pc' \in {"graph", "called"}
             /\ \A i, j \in DOMAIN errs : i < j => errs[i] < errs[j]
             /\ \A i \in DOMAIN chunks_to_upsert' :
                   LET stored == \E pt \in new :
                                    pt.qualified_name = chunks_to_upsert'[i].qualified_name
                   IN IF BatchOf(i) + 1 \in Range(errs) THEN ~stored ELSE stored]_vars

\* C19 witness: the first of three batches raised and the chunks of the two
\* batches behind it are in the collection
C19_Witness ==
  /\ pc = "called"
  /\ Len(chunks_to_upsert) = 2 * BatchSize + 1
  /\ console.batch_errors = <<1>>
  /\ \A i \in (BatchSize + 1)..Len(chunks_to_upsert) :
        \E pt \in vstore : pt.qualified_name = chunks_to_upsert[i].qualified_name
  /\ ~(\E pt \in vstore : pt.qualified_name = chunks_to_upsert[1].qualified_name)

\* the qualified names a search result or a store entry can carry
KnownNames ==
  {u.qualified_name : u \in UNION {Range(UnitsOnDisk(d)) : d \in [Paths -> 0..MaxVer]}}

\* C20: in a run whose GraphStore was constructed without a connection
\* (driver None), no step changes the graph store, and get_callers,
\* get_callees and get_execution_flow return empty lists.
C20_OfflineGraphIsNoOp ==
  [][(pc' \in {"detect", "delete", "parse", "upsert", "graph", "save", "dump", "done"}
        /\ ~driver') =>
        /\ gstore' = gstore
        /\ \A qn \in KnownNames :
              /\ get_callers(gstore', driver', qn) = <<>>
              /\ get_callees(gstore', driver', qn) = <<>>
              /\ get_execution_flow(gstore', driver', qn) = <<>>]_vars

\* C20 witness: a full-reset run without a connection has reached its end and
\* saved the state, and the graph store still holds the edge it held before
C20_Witness ==
  /\ RunCompleted /\ FULL_RESET /\ ~driver
  /\ stateFile = ValidFile(current_state)
  /\ EdgeFooBar \in gstore.edges
  /\ get_callers(gstore, driver, EdgeFooBar[2]) = <<>>

(* ------------------------------- C21 ---------------------------------- *)
\* both parses of the file have returned
ParsedTwice == first_parse # <<>> /\ second_parse # <<>>

PositionsOf(list, id) == {i \in DOMAIN list : DocId(list[i]) = id}

\* C22: in reciprocal_rank_fusion with k = 60, a unit that appears in the
\* dense and in the lexical candidate list has a fused score that is at
\* least the contribution 1/(k + rank) of either list alone, and that is the
\* sum of one contribution per list
C22_FusedScoreOnePerList ==
  spc \in {"fused", "ranked"} =>
     LET payloads == [i \in DOMAIN vector_candidates |->
                        Payload(vector_candidates[i])]
         scale == RrfScale(Max(Len(payloads), Len(bm25_candidates)))
         score == FusionScores(payloads, bm25_candidates)
     IN \A id \in DOMAIN score :
           (PositionsOf(payloads, id) # {} /\ PositionsOf(bm25_candidates, id) # {})
           => /\ \A i \in PositionsOf(payloads, id) :
                    score[id] >= RankScore(i - 1, scale)
              /\ \A j \in PositionsOf(bm25_candidates, id) :
                    score[id] >= RankScore(j - 1, scale)
              /\ \E i \in PositionsOf(payloads, id),
                    j \in PositionsOf(bm25_candidates, id) :
                    score[id] = RankScore(i - 1, scale) + RankScore(j - 1, scale)

(* ------------------------------- C23 ---------------------------------- *)
\* the points the run at hand has upserted
RunPoints == {pt \in vstore : pt.id >= nextId - Len(chunks_to_upsert)}

C25_EachEdgeOnce ==
  gphase \in {"built", "synced"} =>
     \A i, j \in DOMAIN graph_builder.call_graph :
        graph_builder.call_graph[i] = graph_builder.call_graph[j] => i = j

(* ------------------------------- C26 ---------------------------------- *)
\* a unit whose name equals a name of the query or whose qualified_name
\* ends with it
IsExactMatch(c) ==
  \E target_name \in extract_function_names(query) :
     c.name = target_name \/ EndsWithName(c.qualified_name, target_name)

\* C26: in the list search returns every exact-name match precedes every
\* result that is not one, no exact match is handed to the cross-encoder,
\* and no fused candidate with the qualified_name of an exact match is kept
\* beside it
C26_ExactMatchesLead ==
  /\ spc \in {"fused", "ranked"} =>
        /\ \A i \in DOMAIN RerankInput(exact_function_chunks,
                                       candidates_before_rerank) :
              ~IsExactMatch(RerankInput(exact_function_chunks,
                                        candidates_before_rerank)[i])
        /\ \A i, j \in DOMAIN candidates_before_rerank :
              (i # j /\ IsExactMatch(candidates_before_rerank[i])) =>
                 candidates_before_rerank[i].qualified_name
                    # candidates_before_rerank[j].qualified_name
  /\ spc = "ranked" =>
        /\ \A i, j \in DOMAIN final_results :
              (i < j /\ IsExactMatch(final_results[j])) =>
                 IsExactMatch(final_results[i])
        /\ \A i, j \in DOMAIN final_results :
              (i # j /\ IsExactMatch(final_results[i])) =>
                 final_results[i].qualified_name # final_results[j].qualified_name

\* a search whose result holds an exact match in front of a reranked
\* candidate, the exact match having been a dense candidate as well
C26_Witness ==
  /\ spc = "ranked"
  /\ Len(final_results) = 2
  /\ IsExactMatch(final_results[1]) /\ ~IsExactMatch(final_results[2])
  /\ \E i \in DOMAIN vector_candidates :
        vector_candidates[i].qualified_name = final_results[1].qualified_name

(* ------------------------------- C30 ---------------------------------- *)
\* C30: the list search returns never holds two entries with the same
\* qualified_name, also when a unit is an exact match and a dense or lexical
\* candidate at once, and also when the corpus snapshot or the dense result
\* list holds several entries with that qualified_name
C30_ResultNamesDistinct ==
  spc = "ranked" =>
     \A i, j \in DOMAIN final_results :
        final_results[i].qualified_name = final_results[j].qualified_name
           => i = j

\* a search on a collection with two points of one qualified_name, both of
\* them dense and lexical candidates and that name an exact match
C30_Witness ==
  /\ spc = "ranked"
  /\ final_results # <<>>
  /\ exact_function_chunks # <<>>
  /\ \E i, j \in DOMAIN vector_candidates :
        /\ i # j
        /\ vector_candidates[i].qualified_name = vector_candidates[j].qualified_name
        /\ vector_candidates[i].qualified_name = final_results[1].qualified_name
  /\ \E i, j \in DOMAIN all_chunks :
        i # j /\ all_chunks[i].qualified_name = all_chunks[j].qualified_name

(* ------------------------------- C27 ---------------------------------- *)
\* a name the scan must leave out: an ignored directory or a hidden name
IgnoredPart(part) == part \in IGNORE_DIRS \/ startswith_dot(part)

\* C27: no file is indexed whose path relative to the source root has a
\* component that is in the ignore-directory set or starts with a dot, or
\* whose name is in the ignore-file set; the filter prunes the directories
\* of the traversal as well as the files
C27_IgnoredPathsNotIndexed ==
  /\ \A i \in DOMAIN walked :
        /\ \A k \in DOMAIN relative_parts(walked[i], TARGET_DIR) :
              ~IgnoredPart(relative_parts(walked[i], TARGET_DIR)[k])
        /\ walked[i][Len(walked[i])] \notin IGNORE_FILES
  /\ \A d \in dirs_pending : \A k \in DOMAIN d : ~IgnoredPart(d[k])

\* the walk is over, it listed a file of a sub-directory and left out a .py
\* file below an ignored or hidden directory and a hidden .py file
C27_Witness ==
  /\ dirs_pending = {}
  /\ \E i \in DOMAIN walked : Len(walked[i]) > Len(TARGET_DIR) + 1
  /\ \E p \in tree :
        /\ endswith_py(p[Len(p)])
        /\ TARGET_DIR \o p \notin Range(walked)

(* ------------------------------- C28 ---------------------------------- *)
\* C28: an incremental run that finds no new, no modified and no deleted
\* file ends without changing the vector store, the graph store or the
\* ingest state file: its two steps, the start of the run and the
\* detection, leave all three alone, and it is done right after detection
C28_NoChangeRunIsFrame ==
  [][ /\ (pc = "idle" /\ pc' = "detect" /\ ~FULL_RESET') =>
            UNCHANGED <<vstore, gstore, stateFile>>
      /\ (pc = "detect" /\ pc' # "idle" /\ ~FULL_RESET) =>
            /\ UNCHANGED <<vstore, gstore, stateFile>>
            /\ (files_to_embed' = <<>> /\ files_to_delete' = <<>>) =>
                  (pc' = "done" /\ stateFile' = runStartFile')
    ]_vars

\* an incremental run over an indexed tree that found nothing to do
C28_Witness ==
  /\ pc = "done" /\ EarlyReturn
  /\ all_files # <<>> /\ unchanged_files = all_files
  /\ vstore # {} /\ gstore # EmptyGraph
  /\ stateFile = runStartFile

(* ------------------------------- C29 ---------------------------------- *)
\* the map a state file should hold for the files a scan listed
HashesOf(files) ==
  [p \in Paths |-> IF p \in Range(files) THEN md5(disk[p]) ELSE None]

\* C29: after any ingest run that completes, full or incremental, the saved
\* state maps exactly the eligible files of the run's scan to their current
\* hashes and holds no other path, so that an incremental run started next
\* with no file changed detects no change
C29_SavedStateMatchesScan ==
  pc = "done" =>
     /\ load_state(stateFile) = HashesOf(all_files)
     /\ ToEmbed(FALSE, load_state(stateFile), ScanFiles) = <<>>
     /\ Modified(FALSE, load_state(stateFile), ScanFiles) = <<>>
     /\ Deleted(FALSE, load_state(stateFile), ScanFiles) = <<>>

\* a run that saved the hashes of two files over a state file that recorded
\* other hashes
C29_Witness ==
  /\ RunCompleted
  /\ Len(all_files) = 2
  /\ runStartFile.kind = "valid"
  /\ load_state(runStartFile) # load_state(stateFile)
====
